---------------------------- MODULE Spec2Model ----------------------------
(***************************************************************************)
(* gptinvoice: the invoice discovery and download pipeline.                *)
(*                                                                         *)
(*   Spec        main() of index.ts: getValidAccessToken, the portal URL,  *)
(*               then getInvoiceUrls,                                      *)
(*               filterInvoicesByMonth and downloadInvoice                 *)
(*   SpecWatcher waitForFileDownload against a directory the browser       *)
(*               writes into while the watcher polls it                    *)
(*   SpecFilter  filterInvoicesByMonth applied to bounded inputs           *)
(*   SpecClassifier  filterInvoicesByMonth applied to dates written in     *)
(*               the accepted forms and to undated records                 *)
(*   SpecVerify  verifyAccessToken applied to every fetch outcome          *)
(*   SpecConfig  saveConfig, loadConfig and deleteConfig on one file       *)
(*   SpecCli     parseArgs applied to bounded argument lists               *)
(*   SpecAfterClick  waitForFileDownload called after the click, the       *)
(*               download free to finish before the call                   *)
(*   SpecWatcherFair  SpecWatcher with the watcher's steps taken           *)
(*   SpecListing getInvoiceUrls on a row dated with a full month name,     *)
(*               then filterInvoicesByMonth                                *)
(*                                                                         *)
(* JavaScript strings that the code inspects (dates, target months, file   *)
(* names) are sequences of one-character strings, so that includes,        *)
(* startsWith, endsWith, toLowerCase, split and padStart are computed.     *)
(***************************************************************************)
EXTENDS Integers, Sequences, FiniteSets, TLC

VARIABLES
    \* ---- filterInvoicesByMonth applied as a pure function (SpecFilter)
    fInvoices,      \* the invoices argument
    fTarget,        \* the targetMonth argument
    fPc,            \* "ready" | "done" | "again" | "refiltered"
    fResult,        \* the returned array (<<>> until the call is made)
    fAgain,         \* what a second call with the same arguments returned
    fRefiltered,    \* what the call on the first result returned
    fDom            \* the anchors of the page the listing is applied to

filterVars ==
    <<fInvoices, fTarget, fPc, fResult, fAgain, fRefiltered, fDom>>

VARIABLES
    \* ---- main() of index.ts (Spec)
    options,        \* the CliOptions main reads: month, downloadAll,
                    \* showHelp, clearConfig
    dom,            \* the invoice links of the portal page, in DOM order
    mainPc,         \* main's position
    mainCompletion, \* main's try block: "none" | "return" | "throw"
    browser,        \* "none" | "open" | "closed"
    browserCloseCalls, \* calls of browser.close()
    tabs,           \* the pages created by browser.newPage(), by creation order
    allInvoices,    \* what getInvoiceUrls returned
    invoicesToDownload,
    i,              \* the loop index of the download loop
    successCount,
    failCount,
    summaryPrinted, \* the summary block was reached
    exitCode,       \* -1 while the process runs, then 0 or 1
    attempts,       \* history: the urls downloadInvoice was called with
    outcomes,       \* history: per completed call "ok" | "fail" | "threw"
    listingError,   \* history: the step of getInvoiceUrls that threw, or "none"
    \* ---- the running downloadInvoice call
    dlPc,           \* its position; "idle" between calls
    dlUrl,          \* the invoiceUrl argument
    dlPage,         \* index in tabs of invoicePage; 0 before newPage returns
    dlDownloadedFile, \* what waitForFileDownload returned; NoPath before
    dlResult,       \* the DownloadResult to return; NoResult before
    dlTrace,        \* history: the steps of the try block started in this
                    \* call, each with whether it completed
    dlSink          \* the download behaviour set on invoicePage; NoSink
                    \* before

mainVars ==
    <<options, dom, mainPc, mainCompletion, browser, browserCloseCalls, tabs,
      allInvoices, invoicesToDownload, i, successCount, failCount,
      summaryPrinted, exitCode, attempts, outcomes, listingError>>

dlHistory == <<dlTrace, dlSink>>

dlVars ==
    <<dlPc, dlUrl, dlPage, dlDownloadedFile, dlResult, dlHistory>>

VARIABLES
    \* ---- waitForFileDownload and the directory it watches (SpecWatcher)
    now,            \* Date.now(), in ms
    dirFiles,       \* the directory: file name -> size, Absent when not there
    wPc,            \* the watcher's position
    startTime,
    timeout,        \* the timeout argument
    existingFiles,
    newFile,        \* NoPath until a new file is chosen
    lastSize,
    stabI,          \* the index i of the stabilisation loop
    wReturn,        \* the returned path; NoPath before
    pdfsAtCall,     \* history: the .pdf files in the directory at the call
    reads,          \* history: the number of size readings made
    lastRead,       \* history: the last size reading, Absent before it
    sleeps          \* history: the number of poll sleeps made

watcherLocals ==
    <<wPc, startTime, timeout, existingFiles, newFile, lastSize, stabI,
      wReturn, pdfsAtCall, reads, lastRead, sleeps>>

\* the locals and the call's history other than wPc and sleeps
watcherLocals_exceptPc ==
    <<startTime, timeout, existingFiles, newFile, lastSize, stabI, wReturn,
      pdfsAtCall, reads, lastRead>>

watchVars == <<now, dirFiles, watcherLocals>>

\* mainVars without tabs
mainVars_exceptTabs ==
    <<options, dom, mainCompletion, mainPc, browser, browserCloseCalls,
      allInvoices, invoicesToDownload, i, successCount, failCount,
      summaryPrinted, exitCode, attempts, outcomes, listingError>>

VARIABLES
    \* ---- getValidAccessToken and the portal request of main (Spec)
    accessToken,    \* what getValidAccessToken returned; NoToken before
    typed,          \* the token promptForToken returned last
    prompts,        \* history: the number of prompts made
    verifiedTokens, \* history: the tokens verifyAccessToken found valid
    saves,          \* history: the tokens saveConfig was called with
    portalUrl,      \* what getCustomerPortalUrl returned; NoUrl before
    portalError,    \* what getCustomerPortalUrl threw; NoError if nothing
    helpPrinted     \* history: printHelp() was called

tokenVars ==
    <<accessToken, typed, prompts, verifiedTokens, saves, portalUrl,
      portalError, helpPrinted>>

VARIABLES
    \* ---- the config file and the calls of config.ts (SpecConfig)
    configFile,     \* the content of ~/.gptinvoice/config, or NoFile
    cLastSaved,     \* history: the token of the last saveConfig, NoToken
                    \* before it and after a deleteConfig
    cLoaded,        \* what loadConfig returned since the file last changed
    cSaveCount,     \* history: the number of saveConfig calls
    cFileMode,      \* the permission bits of the config file, NoMode if absent
    cDirMode,       \* the permission bits of ~/.gptinvoice, NoMode if absent
    cOp,            \* history: the last call, "none" | "save" | "load" |
                    \* "delete"
    cRaised         \* history: the last call threw

configVars ==
    <<configFile, cLastSaved, cLoaded, cSaveCount, cFileMode, cDirMode, cOp,
      cRaised>>

VARIABLES
    \* ---- verifyAccessToken applied to a fetch outcome (SpecVerify)
    vPc,            \* "ready" | "done"
    vToken,         \* the accessToken argument
    vFetch,         \* how the fetch ended
    vResult         \* the returned TokenVerificationResult

verifyVars == <<vPc, vToken, vFetch, vResult>>

VARIABLES
    \* ---- parseArgs applied to an argument list (SpecCli)
    argv,           \* the args argument: process.argv.slice(2)
    cliPc,          \* "ready" | "done"
    cliResult       \* how the call ended: exited with a status, or the
                    \* returned CliOptions

cliVars == <<argv, cliPc, cliResult>>

setupVars == <<tokenVars, configVars, verifyVars, cliVars>>

vars == <<mainVars, dlVars, filterVars, watchVars, setupVars>>

-----------------------------------------------------------------------------
(* Bounds of the model *)

\* longest invoice array handed to filterInvoicesByMonth
MaxInvoices == 3

\* most invoice links on the portal page
MaxLinks == 2

\* largest file size
MaxSize == 2

\* the longest timeout handed to waitForFileDownload, in clock steps
MaxTimeoutTicks == 3

\* the latest a timer fires after its delay, in clock steps
MaxJitterTicks == 1

-----------------------------------------------------------------------------
(* String primitives *)

UpperChars ==
    <<"A","B","C","D","E","F","G","H","I","J","K","L","M",
      "N","O","P","Q","R","S","T","U","V","W","X","Y","Z">>

LowerChars ==
    <<"a","b","c","d","e","f","g","h","i","j","k","l","m",
      "n","o","p","q","r","s","t","u","v","w","x","y","z">>

DigitChars == <<"0","1","2","3","4","5","6","7","8","9">>

\* String.prototype.toLowerCase
toLowerCase(s) ==
    [k \in 1..Len(s) |->
        IF \E j \in 1..26 : UpperChars[j] = s[k]
        THEN LowerChars[CHOOSE j \in 1..26 : UpperChars[j] = s[k]]
        ELSE s[k]]

\* String.prototype.includes
includes(s, sub) ==
    \E p \in 0..(Len(s) - Len(sub)) : SubSeq(s, p + 1, p + Len(sub)) = sub

\* String.prototype.startsWith
startsWith(s, prefix) ==
    /\ Len(prefix) <= Len(s)
    /\ SubSeq(s, 1, Len(prefix)) = prefix

\* String.prototype.endsWith
endsWith(s, suffix) ==
    /\ Len(suffix) <= Len(s)
    /\ SubSeq(s, Len(s) - Len(suffix) + 1, Len(s)) = suffix

\* String.prototype.split with a one-character separator
RECURSIVE split(_, _)
split(s, sep) ==
    IF \A k \in 1..Len(s) : s[k] # sep
    THEN <<s>>
    ELSE LET k == CHOOSE k \in 1..Len(s) :
                      /\ s[k] = sep
                      /\ \A j \in 1..(k - 1) : s[j] # sep
         IN  <<SubSeq(s, 1, k - 1)>> \o split(SubSeq(s, k + 1, Len(s)), sep)

\* String(n) for 0 <= n <= 99
String(n) ==
    IF n < 10 THEN <<DigitChars[n + 1]>>
    ELSE <<DigitChars[(n \div 10) + 1], DigitChars[(n % 10) + 1]>>

\* String.prototype.padStart(len, ch)
RECURSIVE padStart(_, _, _)
padStart(s, len, ch) ==
    IF Len(s) >= len THEN s ELSE padStart(<<ch>> \o s, len, ch)

-----------------------------------------------------------------------------
(* filterInvoicesByMonth *)

monthNames ==
    << <<"j","a","n">>, <<"f","e","b">>, <<"m","a","r">>, <<"a","p","r">>,
       <<"m","a","y">>, <<"j","u","n">>, <<"j","u","l">>, <<"a","u","g">>,
       <<"s","e","p">>, <<"o","c","t">>, <<"n","o","v">>, <<"d","e","c">> >>

longMonthNames ==
    << <<"j","a","n","u","a","r","y">>,
       <<"f","e","b","r","u","a","r","y">>,
       <<"m","a","r","c","h">>,
       <<"a","p","r","i","l">>,
       <<"m","a","y">>,
       <<"j","u","n","e">>,
       <<"j","u","l","y">>,
       <<"a","u","g","u","s","t">>,
       <<"s","e","p","t","e","m","b","e","r">>,
       <<"o","c","t","o","b","e","r">>,
       <<"n","o","v","e","m","b","e","r">>,
       <<"d","e","c","e","m","b","e","r">> >>

\* the month-name rule without its year test
matchesMonth_NoYear(dateStr, year, month) ==
    LET lowerDate == toLowerCase(dateStr)
    IN  \/ \E m \in 0..(Len(monthNames) - 1) :
              /\ \/ includes(lowerDate, monthNames[m + 1])
                 \/ includes(lowerDate, longMonthNames[m + 1])
              /\ padStart(String(m + 1), 2, "0") = month
        \/ startsWith(dateStr, year \o <<"-">> \o month)

\* the ISO rule read the other way round: the date is a prefix of the target
matchesMonth_DateIsPrefix(dateStr, year, month) ==
    LET lowerDate == toLowerCase(dateStr)
    IN  \/ \E m \in 0..(Len(monthNames) - 1) :
              /\ \/ includes(lowerDate, monthNames[m + 1])
                 \/ includes(lowerDate, longMonthNames[m + 1])
              /\ padStart(String(m + 1), 2, "0") = month
              /\ includes(dateStr, year)
        \/ startsWith(year \o <<"-">> \o month, dateStr)

\* the predicate of the filter callback: the month-name loop, then the
\* ISO-prefix rule
matchesMonth(dateStr, year, month) ==
    LET lowerDate == toLowerCase(dateStr)
    IN  \/ \E m \in 0..(Len(monthNames) - 1) :
              /\ \/ includes(lowerDate, monthNames[m + 1])
                 \/ includes(lowerDate, longMonthNames[m + 1])
              /\ padStart(String(m + 1), 2, "0") = month
              /\ includes(dateStr, year)
        \/ startsWith(dateStr, year \o <<"-">> \o month)

\* Array.prototype.filter: the elements the predicate accepts, in order
RECURSIVE filterByMonth(_, _, _)
filterByMonth(invoices, year, month) ==
    IF invoices = <<>> THEN <<>>
    ELSE (IF matchesMonth(Head(invoices).date, year, month)
          THEN <<Head(invoices)>> ELSE <<>>)
         \o filterByMonth(Tail(invoices), year, month)

\* a filter that also drops an invoice equal to one already kept
RECURSIVE filterByMonthDedup(_, _, _)
filterByMonthDedup(invoices, year, month) ==
    IF invoices = <<>> THEN <<>>
    ELSE LET front == SubSeq(invoices, 1, Len(invoices) - 1)
             last  == invoices[Len(invoices)]
             kept  == filterByMonthDedup(front, year, month)
         IN  IF /\ matchesMonth(last.date, year, month)
                /\ \A k \in 1..Len(kept) : kept[k] # last
             THEN Append(kept, last) ELSE kept

filterInvoicesByMonth_Dedup(invoices, targetMonth) ==
    LET parts == split(targetMonth, "-")
    IN  filterByMonthDedup(invoices, parts[1], parts[2])

filterInvoicesByMonth(invoices, targetMonth) ==
    LET parts == split(targetMonth, "-")
        year  == parts[1]
        month == parts[2]
    IN  filterByMonth(invoices, year, month)

-----------------------------------------------------------------------------
(* Inputs: the dates of tests/download.test.ts and the "unknown" sentinel *)

Date_Jan15_2024 == <<"J","a","n"," ","1","5",","," ","2","0","2","4">>
Date_February1_2024 ==
    <<"F","e","b","r","u","a","r","y"," ","1",","," ","2","0","2","4">>
Date_Iso_2024_01_10 == <<"2","0","2","4","-","0","1","-","1","0">>
Date_Dec25_2023 == <<"D","e","c"," ","2","5",","," ","2","0","2","3">>
Date_unknown == <<"u","n","k","n","o","w","n">>

Target_2024_01 == <<"2","0","2","4","-","0","1">>
Target_2024_02 == <<"2","0","2","4","-","0","2">>
Target_2023_12 == <<"2","0","2","3","-","1","2">>

TargetMonths == {Target_2024_01, Target_2024_02, Target_2023_12}

SampleInvoices ==
    { [url |-> "invoice1", date |-> Date_Jan15_2024],
      [url |-> "invoice2", date |-> Date_February1_2024],
      [url |-> "invoice4", date |-> Date_Iso_2024_01_10],
      [url |-> "invoice5", date |-> Date_Dec25_2023],
      [url |-> "invoice7", date |-> Date_unknown] }

SeqsUpTo(S, n) == UNION {[1..k -> S] : k \in 0..n}

-----------------------------------------------------------------------------
(* getInvoiceUrls: the in-page extraction *)

IsDigit(c) == \E k \in 1..10 : DigitChars[k] = c

\* \w : letters, digits and the underscore
IsWord(c) ==
    \/ \E k \in 1..26 : UpperChars[k] = c \/ LowerChars[k] = c
    \/ IsDigit(c)
    \/ c = "_"

\* \s : the white space of the modelled texts
IsSpace(c) == c = " "

\* length of the longest run of digits of s that starts at position p
DigitRun(s, p) ==
    CHOOSE n \in 0..(Len(s) - p + 1) :
        /\ \A k \in p..(p + n - 1) : IsDigit(s[k])
        /\ (p + n > Len(s) \/ ~IsDigit(s[p + n]))

\* length of the longest run of white space of s that starts at position p
SpaceRun(s, p) ==
    CHOOSE n \in 0..(Len(s) - p + 1) :
        /\ \A k \in p..(p + n - 1) : IsSpace(s[k])
        /\ (p + n > Len(s) \/ ~IsSpace(s[p + n]))

\* \w{3}\s+\d{1,2},?\s+\d{4} matched at position p: the position of the
\* match's last character, 0 when there is no match. The classes that
\* follow one another are disjoint, so each run is taken whole: the day is
\* a run of exactly one or two digits, the year the first four digits of
\* a run of at least four.
MonthDayYearEnd(s, p) ==
    IF ~(p + 2 <= Len(s) /\ \A k \in p..(p + 2) : IsWord(s[k])) THEN 0
    ELSE LET ws1  == SpaceRun(s, p + 3)
             dayP == p + 3 + ws1
             day  == DigitRun(s, dayP)
             comP == dayP + day
             com  == IF comP <= Len(s) /\ s[comP] = "," THEN 1 ELSE 0
             ws2  == SpaceRun(s, comP + com)
             yrP  == comP + com + ws2
         IN  IF /\ ws1 >= 1
                /\ day \in {1, 2}
                /\ ws2 >= 1
                /\ DigitRun(s, yrP) >= 4
             THEN yrP + 3 ELSE 0

\* \d{4}-\d{2}-\d{2} matched at position p: the position of the match's last
\* character, 0 when there is no match
IsoDateEnd(s, p) ==
    IF /\ p + 9 <= Len(s)
       /\ \A k \in {0, 1, 2, 3, 5, 6, 8, 9} : IsDigit(s[p + k])
       /\ s[p + 4] = "-"
       /\ s[p + 7] = "-"
    THEN p + 9 ELSE 0

\* text.match(/(\w{3}\s+\d{1,2},?\s+\d{4})|(\d{4}-\d{2}-\d{2})/): the
\* leftmost match, the first alternative tried first; <<>> for no match
\* (a match is never empty)
dateMatch(text) ==
    LET hits == {p \in 1..Len(text) :
                    MonthDayYearEnd(text, p) > 0 \/ IsoDateEnd(text, p) > 0}
    IN  IF hits = {} THEN <<>>
        ELSE LET p == CHOOSE q \in hits : \A r \in hits : q <= r
                 e == IF MonthDayYearEnd(text, p) > 0
                      THEN MonthDayYearEnd(text, p) ELSE IsoDateEnd(text, p)
             IN  SubSeq(text, p, e)

\* the body of links.forEach for one anchor. An anchor is
\* [href, hasTr, trText, parentText]: its closest('tr') text when it is in a
\* table row, else the text of its parent element (closest('[data-testid]')
\* is the anchor itself, which carries data-testid="hip-link")
extractInvoice(anchor) ==
    LET text  == IF anchor.hasTr THEN anchor.trText ELSE anchor.parentText
        found == dateMatch(text)
    IN  [url  |-> anchor.href,
         date |-> IF found # <<>> THEN found ELSE Date_unknown]

\* an extraction that skips a link whose href it has already recorded
RECURSIVE evaluateLinks_Dedup(_)
evaluateLinks_Dedup(links) ==
    IF links = <<>> THEN <<>>
    ELSE LET front == evaluateLinks_Dedup(SubSeq(links, 1, Len(links) - 1))
             last  == extractInvoice(links[Len(links)])
         IN  IF \E k \in 1..Len(front) : front[k].url = last.url
             THEN front ELSE Append(front, last)

\* the callback of page.evaluate: one record per link, in DOM order
evaluateLinks(links) == [k \in 1..Len(links) |-> extractInvoice(links[k])]

Text_Jan15_2024_Paid ==
    <<"J","a","n"," ","1","5",","," ","2","0","2","4"," ","P","a","i","d">>
Text_February1_2024_Paid ==
    <<"F","e","b","r","u","a","r","y"," ","1",","," ","2","0","2","4",
      " ","P","a","i","d">>
Text_Iso_2024_01_10 ==
    <<"N","o",".","7"," ","2","0","2","4","-","0","1","-","1","0">>
Text_NoDate == <<"I","n","v","o","i","c","e">>

\* the anchors a portal page may hold
PortalLinks ==
    { [href |-> "invoice1", hasTr |-> TRUE,
       trText |-> Text_Jan15_2024_Paid, parentText |-> Text_NoDate],
      [href |-> "invoice2", hasTr |-> TRUE,
       trText |-> Text_February1_2024_Paid, parentText |-> Text_NoDate],
      [href |-> "invoice4", hasTr |-> FALSE,
       trText |-> <<>>, parentText |-> Text_Iso_2024_01_10],
      [href |-> "invoice7", hasTr |-> FALSE,
       trText |-> <<>>, parentText |-> Text_NoDate] }

-----------------------------------------------------------------------------
(* downloadInvoice *)

NoPath == <<>>
NoResult == [success |-> FALSE, filePath |-> NoPath, error |-> "none",
             set |-> FALSE]

\* options.month = null
NoMonth == <<>>

\* the file names the download directory may hold
File_a_pdf == <<"a",".","p","d","f">>
File_b_pdf == <<"b",".","p","d","f">>
File_b_crdownload ==
    <<"b",".","p","d","f",".","c","r","d","o","w","n","l","o","a","d">>
FileNames == {File_a_pdf, File_b_pdf, File_b_crdownload}

\* those of them that are PDF files
PdfNames == {File_a_pdf, File_b_pdf}

\* the downloadDir argument, which is downloadInvoice's outputDir
DownloadDir == <<"o","u","t">>

\* path.join(downloadDir, name)
join(directory, name) == directory \o <<"/">> \o name

\* process.cwd()
Cwd == <<"/", "w", "d">>

\* path.resolve(outputDir): an absolute path is kept, another is taken
\* from the working directory
resolve(directory) ==
    IF startsWith(directory, <<"/">>) THEN directory
    ELSE join(Cwd, directory)

\* no Page.setDownloadBehavior sent on the tab
NoSink == [behavior |-> "default", downloadPath |-> <<>>]

\* the tab's download behaviour after cdp.send('Page.setDownloadBehavior')
SinkAfter(step, sink) ==
    IF step = "cdp"
    THEN [behavior |-> "allow", downloadPath |-> resolve(DownloadDir)]
    ELSE sink

\* the paths waitForFileDownload may return in a run of main
WatcherPaths == {join(DownloadDir, f) : f \in PdfNames}

\* what a failing step throws: an Error with its message, or another value
Thrown(step) ==
    {[isError |-> TRUE, message |-> step], [isError |-> FALSE, message |-> ""]}

\* a try block that navigates before it sets the download behaviour
TrySteps_GotoBeforeCdp ==
    <<"mkdir", "goto", "cdp", "waitForSelector", "click", "watch">>

\* the steps inside the try block, in program order
TrySteps == <<"mkdir", "cdp", "goto", "waitForSelector", "click", "watch">>

StepAfter(step) ==
    LET k == CHOOSE j \in 1..Len(TrySteps) : TrySteps[j] = step
    IN  TrySteps[k + 1]

\* the catch block: the DownloadResult built from the thrown value, which
\* carries no filePath
CatchResult_WithPath(error) ==
    [success |-> FALSE, filePath |-> join(DownloadDir, File_a_pdf),
     error |-> IF error.isError THEN error.message ELSE "Unknown error",
     set |-> TRUE]

CatchResult(error) ==
    [success |-> FALSE, filePath |-> NoPath,
     error |-> IF error.isError THEN error.message ELSE "Unknown error",
     set |-> TRUE]

\* the return statement of the try block, which carries no error
SuccessResult(downloadedFile) ==
    [success |-> TRUE, filePath |-> downloadedFile, error |-> "none",
     set |-> TRUE]

DownloadTabs == {t \in 1..Len(tabs) : tabs[t].kind = "download"}
OpenDownloadTabs == {t \in DownloadTabs : tabs[t].open}

\* const invoicePage = await browser.newPage(), before the try block: a
\* rejection leaves downloadInvoice as a rejection
DlNewPage ==
    /\ dlPc = "newPage"
    /\ \/ /\ tabs' = Append(tabs, [kind |-> "download", open |-> TRUE,
                                   closeCalls |-> 0])
          /\ dlPage' = Len(tabs) + 1
          /\ dlPc' = "mkdir"
       \/ /\ dlPc' = "threw"
          /\ UNCHANGED <<tabs, dlPage>>
    /\ UNCHANGED <<mainVars_exceptTabs, dlUrl, dlDownloadedFile, dlResult,
                   dlHistory,
                   filterVars, watchVars, setupVars>>

\* one awaited step of the try block other than the watcher: existsSync and
\* mkdirSync; createCDPSession and Page.setDownloadBehavior; goto;
\* waitForSelector; click. It completes, or throws into the catch block.
DlTryStep ==
    /\ dlPc \in {"mkdir", "cdp", "goto", "waitForSelector", "click"}
    /\ \/ /\ dlPc' = StepAfter(dlPc)
          /\ dlTrace' = Append(dlTrace, [step |-> dlPc, ok |-> TRUE])
          /\ dlSink' = SinkAfter(dlPc, dlSink)
          /\ UNCHANGED dlResult
       \/ \E error \in Thrown(dlPc) :
              /\ dlResult' = CatchResult(error)
              /\ dlTrace' = Append(dlTrace, [step |-> dlPc, ok |-> FALSE])
              /\ dlPc' = "finally"
              /\ UNCHANGED dlSink
    /\ UNCHANGED <<mainVars, dlUrl, dlPage, dlDownloadedFile, filterVars,
                   watchVars, setupVars>>

\* const downloadedFile = await waitForFileDownload(outputDir, 30000) and the
\* return of the try block; the watcher returns a path or throws (its
\* timeout, or a filesystem error)
DlWatch ==
    /\ dlPc = "watch"
    /\ \/ \E file \in WatcherPaths :
              /\ dlDownloadedFile' = file
              /\ dlResult' = SuccessResult(file)
              /\ dlTrace' = Append(dlTrace, [step |-> dlPc, ok |-> TRUE])
       \/ \E error \in Thrown("Download timed out") :
              /\ dlResult' = CatchResult(error)
              /\ dlTrace' = Append(dlTrace, [step |-> dlPc, ok |-> FALSE])
              /\ UNCHANGED dlDownloadedFile
    /\ dlPc' = "finally"
    /\ UNCHANGED <<mainVars, dlUrl, dlPage, dlSink, filterVars, watchVars,
                   setupVars>>

\* the finally block run only when the try block returned
DlClose_OnlyOnSuccess ==
    /\ dlPc = "finally"
    /\ IF dlResult.success
       THEN tabs' = [tabs EXCEPT ![dlPage].closeCalls = @ + 1,
                                 ![dlPage].open = FALSE]
       ELSE UNCHANGED tabs
    /\ dlPc' = "returned"
    /\ UNCHANGED <<mainVars_exceptTabs, dlUrl, dlPage, dlDownloadedFile,
                   dlResult, dlHistory, filterVars, watchVars, setupVars>>

\* no finally block: the result is returned with the tab left open
DlClose_Missing ==
    /\ dlPc = "finally"
    /\ dlPc' = "returned"
    /\ UNCHANGED <<mainVars, dlUrl, dlPage, dlDownloadedFile, dlResult,
                   dlHistory, filterVars, watchVars, setupVars>>

\* finally { await invoicePage.close() }: the pending result is returned
\* when close() resolves; when it rejects, the rejection replaces the
\* result and leaves downloadInvoice (the tab may or may not be gone)
DlClose ==
    /\ dlPc = "finally"
    /\ \/ /\ tabs' = [tabs EXCEPT ![dlPage].closeCalls = @ + 1,
                                  ![dlPage].open = FALSE]
          /\ dlPc' = "returned"
       \/ \E stillOpen \in BOOLEAN :
              /\ tabs' = [tabs EXCEPT ![dlPage].closeCalls = @ + 1,
                                      ![dlPage].open = stillOpen]
              /\ dlPc' = "threw"
    /\ UNCHANGED <<mainVars_exceptTabs, dlUrl, dlPage, dlDownloadedFile,
                   dlResult, dlHistory, filterVars, watchVars, setupVars>>

-----------------------------------------------------------------------------
(* waitForFileDownload *)

\* await sleep(1000) of the poll loop
PollSleepMs == 1000

\* await sleep(500) of the stabilisation loop
StabSleepMs == 500

\* the stabilisation loop's iteration count
StabIterations == 10

\* the clock's step
TickMs == StabSleepMs

\* no file of that name
Absent == -1

\* fs.readdirSync(downloadDir)
readdirSync(files) == {f \in FileNames : files[f] # Absent}

Suffix_pdf == <<".","p","d","f">>

\* .filter(f => f.endsWith('.pdf'))
pdfFiles(names) == {f \in names : endsWith(f, Suffix_pdf)}

\* currentFiles.filter(f => !existingFiles.has(f)) with the test dropped
newFilesOf_All(currentFiles, existing) == currentFiles

\* currentFiles.filter(f => !existingFiles.has(f))
newFilesOf(currentFiles, existing) == currentFiles \ existing

\* the loop test with the poll interval counted against the timeout
LoopTest_Early(elapsed, limit) == elapsed + PollSleepMs < limit

\* a loop test that lets the loop run one poll interval past the timeout
LoopTest_Late(elapsed, limit) == elapsed < limit + PollSleepMs

\* while (Date.now() - startTime < timeout)
LoopTest(elapsed, limit) == elapsed < limit

\* the stabilisation test without its non-zero condition
Stable_ZeroAllowed(size, last) == size = last

\* stats.size > 0 && stats.size === lastSize
Stable(size, last) == size > 0 /\ size = last

\* the time a sleep(ms) takes: ms, or later when the timer fires late
SleepTimes(ms) == {ms + k * TickMs : k \in 0..MaxJitterTicks}

\* the call has taken its snapshot and not yet completed
WatcherRunning == wPc \in {"poll", "sleep", "stabilize"}

\* the browser (or anything else) creates a file in the directory
EnvCreate ==
    /\ WatcherRunning
    /\ \E f \in FileNames, size \in 0..MaxSize :
           /\ dirFiles[f] = Absent
           /\ dirFiles' = [dirFiles EXCEPT ![f] = size]
    /\ UNCHANGED <<now, watcherLocals, mainVars, dlVars, filterVars,
                   setupVars>>

\* a file of the directory is written: it grows, or is rewritten
EnvWrite ==
    /\ WatcherRunning
    /\ \E f \in FileNames, size \in 0..MaxSize :
           /\ dirFiles[f] # Absent
           /\ dirFiles[f] # size
           /\ dirFiles' = [dirFiles EXCEPT ![f] = size]
    /\ UNCHANGED <<now, watcherLocals, mainVars, dlVars, filterVars,
                   setupVars>>

\* const startTime = Date.now(); const existingFiles = new Set(...)
WatcherStart ==
    /\ wPc = "start"
    /\ startTime' = now
    /\ existingFiles' = pdfFiles(readdirSync(dirFiles))
    /\ pdfsAtCall' = {f \in PdfNames : dirFiles[f] # Absent}
    /\ wPc' = "poll"
    /\ UNCHANGED <<now, dirFiles, timeout, newFile, lastSize, stabI, wReturn,
                   reads, lastRead, sleeps, mainVars, dlVars, filterVars,
                   setupVars>>

\* the loop test and, inside the loop, the listing: the loop ends in the
\* timeout error, or a new file is chosen (readdirSync's order decides which
\* when there are several), or the poll sleep begins
WatcherPoll ==
    /\ wPc = "poll"
    /\ IF ~LoopTest(now - startTime, timeout)
       THEN /\ wPc' = "timedOut"
            /\ UNCHANGED <<newFile, lastSize, stabI>>
       ELSE LET currentFiles == pdfFiles(readdirSync(dirFiles))
                newFiles == newFilesOf(currentFiles, existingFiles)
            IN  IF newFiles # {}
                THEN /\ \E first \in newFiles :
                            newFile' = join(DownloadDir, first)
                     /\ lastSize' = 0
                     /\ stabI' = 0
                     /\ wPc' = "stabilize"
                ELSE /\ wPc' = "sleep"
                     /\ UNCHANGED <<newFile, lastSize, stabI>>
    /\ UNCHANGED <<now, dirFiles, startTime, timeout, existingFiles, wReturn,
                   pdfsAtCall, reads, lastRead, sleeps, mainVars, dlVars,
                   filterVars, setupVars>>

\* await sleep(1000)
WatcherSleep ==
    /\ wPc = "sleep"
    /\ \E t \in SleepTimes(PollSleepMs) : now' = now + t
    /\ sleeps' = sleeps + 1
    /\ wPc' = "poll"
    /\ UNCHANGED <<dirFiles, watcherLocals_exceptPc, mainVars, dlVars,
                   filterVars, setupVars>>

\* the name of the file a path made by join(DownloadDir, name) leads to
FileOf(path) == CHOOSE f \in FileNames : join(DownloadDir, f) = path

\* one iteration of the stabilisation loop: await sleep(500), statSync, the
\* test, and after the last iteration the return that follows the loop
WatcherStabilize ==
    /\ wPc = "stabilize"
    /\ \E t \in SleepTimes(StabSleepMs) : now' = now + t
    /\ LET size == dirFiles[FileOf(newFile)]
       IN  /\ reads' = reads + 1
           /\ lastRead' = size
           /\ IF Stable(size, lastSize)
              THEN /\ wReturn' = newFile
                   /\ wPc' = "returned"
                   /\ UNCHANGED <<lastSize, stabI>>
              ELSE /\ lastSize' = size
                   /\ stabI' = stabI + 1
                   /\ IF stabI + 1 < StabIterations
                      THEN /\ wPc' = "stabilize"
                           /\ UNCHANGED wReturn
                      ELSE /\ wReturn' = newFile
                           /\ wPc' = "returned"
    /\ UNCHANGED <<dirFiles, startTime, timeout, existingFiles, newFile,
                   pdfsAtCall, sleeps, mainVars, dlVars, filterVars, setupVars>>

WatcherIdle ==
    /\ now = 0
    /\ dirFiles = [f \in FileNames |-> Absent]
    /\ wPc = "off"
    /\ startTime = 0
    /\ timeout = 0
    /\ existingFiles = {}
    /\ newFile = NoPath
    /\ lastSize = 0
    /\ stabI = 0
    /\ wReturn = NoPath
    /\ pdfsAtCall = {}
    /\ reads = 0
    /\ lastRead = Absent
    /\ sleeps = 0

InitWatcher ==
    /\ now = 0
    /\ dirFiles \in [FileNames -> {Absent} \cup 0..MaxSize]
    /\ wPc = "start"
    /\ startTime = 0
    /\ timeout \in {k * TickMs : k \in 1..MaxTimeoutTicks}
    /\ existingFiles = {}
    /\ newFile = NoPath
    /\ lastSize = 0
    /\ stabI = 0
    /\ wReturn = NoPath
    /\ pdfsAtCall = {}
    /\ reads = 0
    /\ lastRead = Absent
    /\ sleeps = 0

-----------------------------------------------------------------------------
(* config.ts: the config file ~/.gptinvoice/config *)

\* the longest access token, in characters
MaxTokenLen == 3

\* no file at getConfigPath()
NoFile == <<"<absent>">>

\* no access token (yet)
NoToken == <<>>

\* loadConfig's null
Null == [isNull |-> TRUE, accessToken |-> <<>>]

\* the characters of the modelled tokens: a plain one, the two JSON must
\* escape in a string, and a control character
TokenChars == {"a", "\"", "\\", "\n"}

\* the two-character escapes of JSON: the character after the backslash and
\* the character the escape stands for
JsonEscapes ==
    { <<"\"", "\"">>, <<"\\", "\\">>, <<"/", "/">>, <<"n", "\n">>,
      <<"t", "\t">>, <<"r", "\r">> }

\* the characters JSON.stringify writes as an escape
MustEscape == {"\"", "\\", "\n", "\t", "\r"}

\* a string quoted without escaping anything
QuoteChars_NoEscape(s) == s

\* the characters of a JSON string literal, between its quotes
RECURSIVE QuoteChars(_)
QuoteChars(s) ==
    IF s = <<>> THEN <<>>
    ELSE (IF Head(s) \in MustEscape
          THEN <<"\\", (CHOOSE e \in JsonEscapes : e[2] = Head(s))[1]>>
          ELSE <<Head(s)>>)
         \o QuoteChars(Tail(s))

\* JSON.stringify(config, null, 2) for config = { accessToken: token }
JSONstringify(token) ==
    <<"{", "\n", " ", " ", "\"">>
    \o <<"a","c","c","e","s","s","T","o","k","e","n">>
    \o <<"\"", ":", " ", "\"">> \o QuoteChars(token) \o <<"\"", "\n", "}">>

\* the white space of JSON
JsonWs == {" ", "\n", "\t", "\r"}

\* the first position from p on that holds no white space
SkipWs(s, p) ==
    CHOOSE q \in p..(Len(s) + 1) :
        /\ \A k \in p..(q - 1) : s[k] \in JsonWs
        /\ (q > Len(s) \/ s[q] \notin JsonWs)

JsonFail == [ok |-> FALSE, kind |-> "none", value |-> <<>>, next |-> 0]

\* a JSON string literal from the character after its opening quote: the
\* decoded string and the position after the closing quote
RECURSIVE StringBody(_, _, _)
StringBody(s, p, acc) ==
    IF p > Len(s) THEN JsonFail
    ELSE IF s[p] = "\"" 
         THEN [ok |-> TRUE, kind |-> "string", value |-> acc, next |-> p + 1]
    ELSE IF s[p] = "\\"
         THEN IF p + 1 <= Len(s) /\ \E e \in JsonEscapes : e[1] = s[p + 1]
              THEN StringBody(s, p + 2,
                       Append(acc, (CHOOSE e \in JsonEscapes :
                                        e[1] = s[p + 1])[2]))
              ELSE JsonFail
    ELSE IF s[p] \in {"\n", "\t", "\r"} THEN JsonFail
    ELSE StringBody(s, p + 1, Append(acc, s[p]))

\* a JSON value at position p: a string or a number without sign, fraction
\* or exponent
ValueAt(s, p) ==
    IF p > Len(s) THEN JsonFail
    ELSE IF s[p] = "\"" THEN StringBody(s, p + 1, <<>>)
    ELSE IF IsDigit(s[p]) /\ (s[p] # "0" \/ DigitRun(s, p) = 1)
         THEN [ok |-> TRUE, kind |-> "number",
               value |-> SubSeq(s, p, p + DigitRun(s, p) - 1),
               next |-> p + DigitRun(s, p)]
    ELSE JsonFail

\* the members of an object from position p (after "{" or ","): the list of
\* <<key, value>> and the position after the closing brace
RECURSIVE MembersAt(_, _, _)

\* after a member: the closing brace, or a comma and the next member
MembersEnd(s, endP, all) ==
    IF endP > Len(s) THEN JsonFail
    ELSE IF s[endP] = "}"
    THEN [ok |-> TRUE, kind |-> "object", value |-> all, next |-> endP + 1]
    ELSE IF s[endP] = "," THEN MembersAt(s, endP + 1, all)
    ELSE JsonFail

MembersAt(s, p, acc) ==
    LET keyP == SkipWs(s, p)
    IN  IF keyP > Len(s) \/ s[keyP] # "\"" THEN JsonFail
        ELSE LET key == StringBody(s, keyP + 1, <<>>)
             IN  IF ~key.ok THEN JsonFail
                 ELSE LET colonP == SkipWs(s, key.next)
                      IN  IF colonP > Len(s) \/ s[colonP] # ":" THEN JsonFail
                          ELSE LET val == ValueAt(s, SkipWs(s, colonP + 1))
                               IN  IF ~val.ok THEN JsonFail
                                   ELSE MembersEnd(s, SkipWs(s, val.next),
                                            Append(acc, <<key.value, val>>))

\* JSON.parse(content) for a text that is an object whose members are
\* strings and numbers, or is not JSON at all: ok = FALSE for a SyntaxError
JSONparse(s) ==
    LET openP == SkipWs(s, 1)
    IN  IF openP > Len(s) \/ s[openP] # "{" THEN JsonFail
        ELSE LET firstP == SkipWs(s, openP + 1)
                 obj == IF firstP <= Len(s) /\ s[firstP] = "}"
                        THEN [ok |-> TRUE, kind |-> "object", value |-> <<>>,
                              next |-> firstP + 1]
                        ELSE MembersAt(s, openP + 1, <<>>)
             IN  IF obj.ok /\ SkipWs(s, obj.next) > Len(s) THEN obj
                 ELSE JsonFail

Key_accessToken == <<"a","c","c","e","s","s","T","o","k","e","n">>

\* config.accessToken of a parsed object: the value of the last member named
\* accessToken; kind "none" for undefined
MemberAccessToken(obj) ==
    LET hits == {k \in 1..Len(obj.value) : obj.value[k][1] = Key_accessToken}
    IN  IF hits = {} THEN JsonFail
        ELSE obj.value[CHOOSE k \in hits : \A j \in hits : j <= k][2]

\* fs.existsSync(getConfigPath())
configExists(file) == file # NoFile

\* a loadConfig that returns whatever object JSON.parse produced
loadConfig_AnyToken(file) ==
    IF ~configExists(file) THEN Null
    ELSE LET parsed == JSONparse(file)
         IN  IF ~parsed.ok THEN Null
             ELSE [isNull |-> FALSE,
                   accessToken |-> MemberAccessToken(parsed).value]

\* loadConfig(): null when the file is missing, is not JSON, or has no
\* non-empty string accessToken
loadConfig(file) ==
    IF ~configExists(file) THEN Null
    ELSE LET parsed == JSONparse(file)
         IN  IF ~parsed.ok THEN Null
             ELSE LET tok == MemberAccessToken(parsed)
                  IN  IF tok.kind # "string" \/ tok.value = <<>> THEN Null
                      ELSE [isNull |-> FALSE, accessToken |-> tok.value]

\* saveConfig(config): the file's content after writeFileSync
saveConfig(token) == JSONstringify(token)

\* what the config file may hold that saveConfig did not write: the texts
\* of tests/config.test.ts, and others
Text_notValidJson ==
    <<"n","o","t"," ","v","a","l","i","d"," ","j","s","o","n">>
Text_fooBar == <<"{","\"","f","o","o","\"",":","\"","b","a","r","\"","}">>
Text_empty == <<>>
Text_openBrace == <<"{">>
Text_emptyObject == <<"{","}">>
Text_emptyToken ==
    <<"{","\"">> \o Key_accessToken \o <<"\"",":","\"","\"","}">>
Text_numberToken == <<"{","\"">> \o Key_accessToken \o <<"\"",":","5","}">>
Text_compactToken ==
    <<"{","\"">> \o Key_accessToken \o <<"\"",":","\"","a","\"","}">>

ForeignContents ==
    {Text_notValidJson, Text_fooBar, Text_empty, Text_openBrace,
     Text_emptyObject, Text_emptyToken, Text_numberToken, Text_compactToken}

\* fs.unlinkSync(getConfigPath()): the file after it; it throws ENOENT for
\* a path that does not exist
unlinkSync(file) ==
    IF file = NoFile THEN [raised |-> TRUE, file |-> file]
    ELSE [raised |-> FALSE, file |-> NoFile]

\* deleteConfig(): the file after it, and whether it threw
deleteConfig(file) ==
    IF configExists(file) THEN unlinkSync(file)
    ELSE [raised |-> FALSE, file |-> file]

\* permission bits, as ls prints them in octal; NoMode for a path that does
\* not exist
NoMode == "absent"
FileModes == {"0600", "0644"}
DirModes == {"0700", "0755"}

\* the mode of a path after open(path, O_CREAT, mode) or mkdir(path, mode):
\* the mode argument is applied when the call creates the path, an existing
\* path keeps its permission bits
ModeAfterCreate(before, mode) == IF before = NoMode THEN mode ELSE before

\* the directory's mode after saveConfig: mkdirSync with mode 0o700 runs
\* only when existsSync(configDir) is false
saveConfigDirMode(dirMode) ==
    IF dirMode = NoMode THEN ModeAfterCreate(dirMode, "0700") ELSE dirMode

\* the file's mode after saveConfig: writeFileSync with mode 0o600
saveConfigFileMode(fileMode) == ModeAfterCreate(fileMode, "0600")

\* no loadConfig call since the file last changed
NotLoaded == [isNull |-> FALSE, accessToken |-> <<>>]

\* most saveConfig calls in a run
MaxSaves == 2

\* the non-empty tokens
TokenStrings == {t \in SeqsUpTo(TokenChars, MaxTokenLen) : t # <<>>}

\* saveConfig({ accessToken: token })
ConfigSave ==
    /\ cSaveCount < MaxSaves
    /\ \E token \in TokenStrings :
           /\ configFile' = saveConfig(token)
           /\ cLastSaved' = token
    /\ cDirMode' = saveConfigDirMode(cDirMode)
    /\ cFileMode' = saveConfigFileMode(cFileMode)
    /\ cSaveCount' = cSaveCount + 1
    /\ cLoaded' = NotLoaded
    /\ cOp' = "save"
    /\ cRaised' = FALSE
    /\ UNCHANGED <<tokenVars, verifyVars, cliVars, mainVars, dlVars,
                   filterVars, watchVars>>

\* loadConfig()
ConfigLoad ==
    /\ cLoaded = NotLoaded
    /\ cLoaded' = loadConfig(configFile)
    /\ cOp' = "load"
    /\ cRaised' = FALSE
    /\ UNCHANGED <<configFile, cLastSaved, cSaveCount, cFileMode, cDirMode,
                   tokenVars, verifyVars, cliVars, mainVars, dlVars,
                   filterVars, watchVars>>

\* deleteConfig()
ConfigDelete ==
    /\ configFile' = deleteConfig(configFile).file
    /\ cFileMode' = IF deleteConfig(configFile).file = NoFile THEN NoMode
                    ELSE cFileMode
    /\ cRaised' = deleteConfig(configFile).raised
    /\ cOp' = "delete"
    /\ cLastSaved' = NoToken
    /\ cLoaded' = NotLoaded
    /\ UNCHANGED <<cSaveCount, cDirMode, tokenVars, verifyVars, cliVars,
                   mainVars, dlVars,
                   filterVars, watchVars>>

ConfigIdle ==
    /\ configFile = NoFile
    /\ cLastSaved = NoToken
    /\ cLoaded = NotLoaded
    /\ cSaveCount = 0
    /\ cFileMode = NoMode
    /\ cDirMode = NoMode
    /\ cOp = "none"
    /\ cRaised = FALSE

-----------------------------------------------------------------------------
(* api.ts: verifyAccessToken and getCustomerPortalUrl *)

\* most prompts for a token in one run
MaxPrompts == 2

\* an error message: the fixed text of its template, and the status or the
\* cause the template interpolates (0 and "" when it has none)
ErrorText(text, status, cause) ==
    [text |-> text, status |-> status, cause |-> cause]

NoError == ErrorText("", 0, "")
NoUrl == ""

\* what a rejected fetch (or a throwing response.json()) throws
NoThrown == [isError |-> FALSE, message |-> "none"]

FetchRejections ==
    { [isError |-> TRUE, message |-> "Network failure"],
      [isError |-> TRUE, message |-> "fetch failed"],
      [isError |-> FALSE, message |-> ""] }

\* the status codes of the responses, those of tests/api.test.ts among them
HttpStatuses ==
    {200, 201, 204, 299, 300, 304, 400, 401, 402, 403, 404, 429, 500, 502, 503}

\* Response.ok: the status is in the range 200-299
ResponseOk(status) == status \in 200..299

\* how await fetch(url, ...) may end: a response with a status, whose text()
\* resolves or rejects, or a rejection
FetchOutcomes(statuses) ==
    {[kind |-> "response", status |-> st, textReadable |-> b,
      error |-> NoThrown] : st \in statuses, b \in BOOLEAN}
    \cup {[kind |-> "rejected", status |-> 0, textReadable |-> FALSE,
           error |-> e] : e \in FetchRejections}

\* error instanceof Error ? error.message : 'Unknown error'
MessageOf(error) == IF error.isError THEN error.message ELSE "Unknown error"

\* a verification that takes 403 for an unexpected response
verifyAccessToken_403Unexpected(fetched) ==
    IF fetched.kind = "rejected"
    THEN [valid |-> FALSE,
          error |-> ErrorText("Network error: ", 0,
                             MessageOf(fetched.error))]
    ELSE IF ResponseOk(fetched.status)
    THEN [valid |-> TRUE, error |-> NoError]
    ELSE IF fetched.status = 401
    THEN [valid |-> FALSE,
          error |-> ErrorText("Access token is invalid or expired", 0, "")]
    ELSE [valid |-> FALSE,
          error |-> ErrorText("Unexpected response: HTTP ", fetched.status,
                             "")]

\* verifyAccessToken, from the outcome of its fetch: the try block's three
\* returns (the best-effort response.text() changes none of them) and the
\* catch block's.
verifyAccessToken(fetched) ==
    IF fetched.kind = "rejected"
    THEN [valid |-> FALSE,
          error |-> ErrorText("Network error: ", 0,
                             MessageOf(fetched.error))]
    ELSE IF ResponseOk(fetched.status)
    THEN [valid |-> TRUE, error |-> NoError]
    ELSE IF fetched.status = 401 \/ fetched.status = 403
    THEN [valid |-> FALSE,
          error |-> ErrorText("Access token is invalid or expired", 0, "")]
    ELSE [valid |-> FALSE,
          error |-> ErrorText("Unexpected response: HTTP ", fetched.status,
                             "")]

\* what await response.json() gives for the portal request: an object with
\* a url, an object without one (or with an empty one), null, or a rejection
\* for a body that is not JSON
PortalBodies == {"url", "noUrl", "null", "notJson"}

\* the portal URL of the response body
PortalUrlOfBody == "https://billing.stripe.com/p/session"

\* getCustomerPortalUrl, from the outcome of its fetch and the body: the
\* returned url, or what it throws
getCustomerPortalUrl(fetched, body) ==
    IF fetched.kind = "rejected"
    THEN [threw |-> TRUE, url |-> NoUrl,
          message |-> ErrorText("", 0, MessageOf(fetched.error))]
    ELSE IF ~ResponseOk(fetched.status)
    THEN [threw |-> TRUE, url |-> NoUrl,
          message |-> ErrorText("Failed to fetch customer portal: HTTP ",
                                fetched.status, "")]
    ELSE IF body = "notJson"
    THEN [threw |-> TRUE, url |-> NoUrl,
          message |-> ErrorText("", 0, "SyntaxError")]
    ELSE IF body = "null"
    THEN [threw |-> TRUE, url |-> NoUrl,
          message |-> ErrorText("", 0, "TypeError")]
    ELSE IF body = "noUrl"
    THEN [threw |-> TRUE, url |-> NoUrl,
          message |-> ErrorText("Customer portal URL not found in response",
                                0, "")]
    ELSE [threw |-> FALSE, url |-> PortalUrlOfBody, message |-> NoError]

\* the call of verifyAccessToken (SpecVerify)
VerifyCall ==
    /\ vPc = "ready"
    /\ vResult' = verifyAccessToken(vFetch)
    /\ vPc' = "done"
    /\ UNCHANGED <<vToken, vFetch, tokenVars, configVars, cliVars, mainVars,
                   dlVars, filterVars, watchVars>>

VerifyIdle ==
    /\ vPc = "off"
    /\ vToken = NoToken
    /\ vFetch = [kind |-> "none", status |-> 0, textReadable |-> FALSE,
                 error |-> NoThrown]
    /\ vResult = [valid |-> FALSE, error |-> NoError]

-----------------------------------------------------------------------------
(* cli.ts: parseArgs and isValidMonthFormat *)

\* most command-line arguments
MaxArgs == 3

\* a month check that takes any two digits for the month
isValidMonthFormat_AnyTwoDigits(s) ==
    /\ Len(s) = 7
    /\ \A k \in {1, 2, 3, 4, 6, 7} : IsDigit(s[k])
    /\ s[5] = "-"

\* /^\d{4}-(0[1-9]|1[0-2])$/.test(month)
isValidMonthFormat(s) ==
    /\ Len(s) = 7
    /\ \A k \in 1..4 : IsDigit(s[k])
    /\ s[5] = "-"
    /\ \/ s[6] = "0" /\ IsDigit(s[7]) /\ s[7] # "0"
       \/ s[6] = "1" /\ s[7] \in {"0", "1", "2"}

\* the arguments of the model: every option of parseArgs, an unknown option,
\* a word, and -month values, valid ones and those of the cli tests
Arg_h == <<"-","h">>
Arg_help == <<"-","h","e","l","p">>
Arg_helpLong == <<"-","-","h","e","l","p">>
Arg_all == <<"-","-","a","l","l">>
Arg_clear == <<"-","-","c","l","e","a","r">>
Arg_debug == <<"-","-","d","e","b","u","g">>
Arg_output == <<"-","o","u","t","p","u","t">>
Arg_month == <<"-","m","o","n","t","h">>
Arg_unknown == <<"-","-","u","n","k","n","o","w","n">>
Arg_word == <<"i","n","v","a","l","i","d">>

MonthArgs ==
    { Target_2024_01, Target_2023_12,
      <<"2","0","2","4","-","1">>,
      <<"2","0","2","4","-","1","3">>,
      <<"2","0","2","4","-","0","0">>,
      <<"2","4","-","0","1">>,
      <<"2","0","2","4","/","0","1">>,
      <<"2","0","2","4","-","0","1","1">>,
      <<>> }

ArgStrings ==
    { Arg_h, Arg_help, Arg_helpLong, Arg_all, Arg_clear, Arg_debug,
      Arg_output, Arg_month, Arg_unknown, Arg_word } \cup MonthArgs

\* the options parseArgs starts from
DefaultOptions ==
    [outputDir |-> Cwd, downloadAll |-> FALSE, month |-> NoMonth,
     showHelp |-> FALSE, clearConfig |-> FALSE, debug |-> FALSE]

\* how a parseArgs call ends
Returned(opts) == [exited |-> FALSE, status |-> 0, options |-> opts]
Exited(code, opts) == [exited |-> TRUE, status |-> code, options |-> opts]

\* the loop of parseArgs from args[k] on (k counts from 1, the code's i + 1)
RECURSIVE parseArgsFrom(_, _, _)
parseArgsFrom(args, k, opts) ==
    IF k > Len(args) THEN Returned(opts)
    ELSE IF args[k] \in {Arg_h, Arg_help, Arg_helpLong}
    THEN parseArgsFrom(args, k + 1, [opts EXCEPT !.showHelp = TRUE])
    ELSE IF args[k] = Arg_all
    THEN parseArgsFrom(args, k + 1, [opts EXCEPT !.downloadAll = TRUE])
    ELSE IF args[k] = Arg_clear
    THEN parseArgsFrom(args, k + 1, [opts EXCEPT !.clearConfig = TRUE])
    ELSE IF args[k] = Arg_debug
    THEN parseArgsFrom(args, k + 1, [opts EXCEPT !.debug = TRUE])
    ELSE IF args[k] = Arg_output /\ k < Len(args)
    THEN parseArgsFrom(args, k + 2, [opts EXCEPT !.outputDir = args[k + 1]])
    ELSE IF args[k] = Arg_month /\ k < Len(args)
    THEN IF ~isValidMonthFormat(args[k + 1]) THEN Exited(1, opts)
         ELSE parseArgsFrom(args, k + 2, [opts EXCEPT !.month = args[k + 1]])
    ELSE IF startsWith(args[k], <<"-">>) THEN Exited(1, opts)
    ELSE parseArgsFrom(args, k + 1, opts)

\* parseArgs(args)
parseArgs(args) == parseArgsFrom(args, 1, DefaultOptions)

\* the call of parseArgs
CliParse ==
    /\ cliPc = "ready"
    /\ cliResult' = parseArgs(argv)
    /\ cliPc' = "done"
    /\ UNCHANGED <<argv, tokenVars, configVars, verifyVars, mainVars, dlVars,
                   filterVars, watchVars>>

CliIdle ==
    /\ argv = <<>>
    /\ cliPc = "off"
    /\ cliResult = Returned(DefaultOptions)

-----------------------------------------------------------------------------
(* main *)

\* a step of main's try block threw: control goes to the finally block
Raise == /\ mainPc' = "finally"
         /\ mainCompletion' = "throw"

\* a return inside main's try block: control goes to the finally block
Return == /\ mainPc' = "finally"
          /\ mainCompletion' = "return"

\* the tokens of a run of main: one plain, one that JSON must escape
Token_a == <<"a">>
Token_quote == <<"\"">>
MainTokens == {Token_a, Token_quote}

\* the responses to the requests main makes
MainStatuses == {200, 401, 500}

\* getValidAccessToken up to its first prompt: loadConfig, and for a loaded
\* config the verification of the saved token, which is returned if valid
LoadAndVerifySaved ==
    /\ mainPc = "loadConfig"
    /\ LET config == loadConfig(configFile)
       IN  IF config.isNull
           THEN /\ mainPc' = "prompt"
                /\ UNCHANGED <<accessToken, verifiedTokens>>
           ELSE \E fetched \in FetchOutcomes(MainStatuses) :
                    IF verifyAccessToken(fetched).valid
                    THEN /\ accessToken' = config.accessToken
                         /\ verifiedTokens' =
                                verifiedTokens \cup {config.accessToken}
                         /\ mainPc' = "portal"
                    ELSE /\ mainPc' = "prompt"
                         /\ UNCHANGED <<accessToken, verifiedTokens>>
    /\ UNCHANGED <<options, dom, mainCompletion, browser, browserCloseCalls,
                   tabs, allInvoices, invoicesToDownload, i, successCount,
                   failCount, summaryPrinted, exitCode, attempts, outcomes,
                   listingError, typed, prompts, saves, portalUrl,
                   portalError, helpPrinted, configVars, verifyVars, cliVars,
                   dlVars, filterVars, watchVars>>

\* a main that asks for the token before it looks at the flags
GetValidAccessTokenSaved_BeforeFlags == LoadAndVerifySaved

\* main after parseArgs returned, when neither showHelp nor clearConfig is
\* set: getValidAccessToken up to its prompt loop
GetValidAccessTokenSaved ==
    /\ ~options.showHelp
    /\ ~options.clearConfig
    /\ LoadAndVerifySaved

\* if (options.showHelp) { printHelp(); process.exit(0); }
MainHelp ==
    /\ mainPc = "loadConfig"
    /\ options.showHelp
    /\ helpPrinted' = TRUE
    /\ exitCode' = 0
    /\ mainPc' = "exited"
    /\ UNCHANGED <<options, dom, mainCompletion, browser, browserCloseCalls,
                   tabs, allInvoices, invoicesToDownload, i, successCount,
                   failCount, summaryPrinted, attempts, outcomes,
                   listingError, accessToken, typed, prompts, verifiedTokens,
                   saves, portalUrl, portalError, configVars, verifyVars,
                   cliVars, dlVars, filterVars, watchVars>>

\* if (options.clearConfig) { deleteConfig(); ...; process.exit(0); }
MainClear ==
    /\ mainPc = "loadConfig"
    /\ ~options.showHelp
    /\ options.clearConfig
    /\ configFile' = deleteConfig(configFile).file
    /\ cFileMode' = IF deleteConfig(configFile).file = NoFile THEN NoMode
                    ELSE cFileMode
    /\ IF deleteConfig(configFile).raised
       THEN /\ mainCompletion' = "throw"
            /\ mainPc' = "settled"
            /\ UNCHANGED exitCode
       ELSE /\ exitCode' = 0
            /\ mainPc' = "exited"
            /\ UNCHANGED mainCompletion
    /\ UNCHANGED <<options, dom, browser, browserCloseCalls, tabs,
                   allInvoices, invoicesToDownload, i, successCount,
                   failCount, summaryPrinted, attempts, outcomes,
                   listingError, tokenVars, cLastSaved, cLoaded, cSaveCount,
                   cDirMode, cOp, cRaised, verifyVars, cliVars, dlVars,
                   filterVars, watchVars>>

\* const token = await promptForToken(): an empty answer goes round the
\* loop, another goes on to its verification
GetValidAccessTokenPrompt ==
    /\ mainPc = "prompt"
    /\ prompts < MaxPrompts
    /\ prompts' = prompts + 1
    /\ \E token \in MainTokens \cup {NoToken} :
           /\ typed' = token
           /\ mainPc' = IF token = NoToken THEN "prompt" ELSE "verifyTyped"
    /\ UNCHANGED <<options, dom, mainCompletion, browser, browserCloseCalls,
                   tabs, allInvoices, invoicesToDownload, i, successCount,
                   failCount, summaryPrinted, exitCode, attempts, outcomes,
                   listingError, accessToken, verifiedTokens, saves,
                   portalUrl, portalError, helpPrinted, configVars,
                   verifyVars, cliVars, dlVars, filterVars, watchVars>>

\* a loop body that saves the typed token before it verifies it
GetValidAccessTokenVerify_SaveFirst ==
    /\ mainPc = "verifyTyped"
    /\ saves' = Append(saves, typed)
    /\ configFile' = saveConfig(typed)
    /\ cDirMode' = saveConfigDirMode(cDirMode)
    /\ cFileMode' = saveConfigFileMode(cFileMode)
    /\ \E fetched \in FetchOutcomes(MainStatuses) :
           IF verifyAccessToken(fetched).valid
           THEN /\ verifiedTokens' = verifiedTokens \cup {typed}
                /\ accessToken' = typed
                /\ mainPc' = "portal"
           ELSE /\ mainPc' = "prompt"
                /\ UNCHANGED <<verifiedTokens, accessToken>>
    /\ UNCHANGED <<options, dom, mainCompletion, browser, browserCloseCalls,
                   tabs, allInvoices, invoicesToDownload, i, successCount,
                   failCount, summaryPrinted, exitCode, attempts, outcomes,
                   listingError, typed, prompts, portalUrl, portalError,
                   helpPrinted, cLastSaved, cLoaded, cSaveCount, cOp, cRaised,
                   verifyVars, cliVars, dlVars, filterVars, watchVars>>

\* the rest of the loop body: the typed token is verified; a valid one is
\* saved and returned, an invalid one goes round the loop. saveConfig may
\* throw (the file is then as it was, or left empty by the failed write),
\* which nothing up to main().catch catches
GetValidAccessTokenVerify ==
    /\ mainPc = "verifyTyped"
    /\ \E fetched \in FetchOutcomes(MainStatuses) :
           IF verifyAccessToken(fetched).valid
           THEN /\ verifiedTokens' = verifiedTokens \cup {typed}
                /\ saves' = Append(saves, typed)
                /\ \/ /\ configFile' = saveConfig(typed)
                      /\ cDirMode' = saveConfigDirMode(cDirMode)
                      /\ cFileMode' = saveConfigFileMode(cFileMode)
                      /\ accessToken' = typed
                      /\ mainPc' = "portal"
                      /\ UNCHANGED mainCompletion
                   \/ /\ \/ UNCHANGED <<configFile, cDirMode, cFileMode>>
                         \/ /\ configFile' = Text_empty
                            /\ cDirMode' = saveConfigDirMode(cDirMode)
                            /\ cFileMode' = saveConfigFileMode(cFileMode)
                      /\ mainPc' = "settled"
                      /\ mainCompletion' = "throw"
                      /\ UNCHANGED accessToken
           ELSE /\ mainPc' = "prompt"
                /\ UNCHANGED <<verifiedTokens, saves, configFile, cDirMode,
                               cFileMode, accessToken, mainCompletion>>
    /\ UNCHANGED <<options, dom, browser, browserCloseCalls, tabs,
                   allInvoices, invoicesToDownload, i, successCount,
                   failCount, summaryPrinted, exitCode, attempts, outcomes,
                   listingError, typed, prompts, portalUrl, portalError,
                   helpPrinted, cLastSaved, cLoaded, cSaveCount, cOp, cRaised,
                   verifyVars, cliVars, dlVars, filterVars, watchVars>>

\* a portal stage whose catch block logs the failure and goes on
MainPortal_GoesOn ==
    /\ mainPc = "portal"
    /\ \E fetched \in FetchOutcomes(MainStatuses), body \in PortalBodies :
           LET got == getCustomerPortalUrl(fetched, body)
           IN  /\ portalUrl' = got.url
               /\ portalError' = got.message
               /\ mainPc' = "launch"
    /\ UNCHANGED <<options, dom, mainCompletion, browser, browserCloseCalls,
                   tabs, allInvoices, invoicesToDownload, i, successCount,
                   failCount, summaryPrinted, exitCode, attempts, outcomes,
                   listingError, accessToken, typed, prompts, verifiedTokens,
                   saves, helpPrinted, configVars, verifyVars, cliVars,
                   dlVars, filterVars, watchVars>>

\* portalUrl = await getCustomerPortalUrl(accessToken) in its try block; the
\* catch block ends the process with process.exit(1)
MainPortal ==
    /\ mainPc = "portal"
    /\ \E fetched \in FetchOutcomes(MainStatuses), body \in PortalBodies :
           LET got == getCustomerPortalUrl(fetched, body)
           IN  IF got.threw
               THEN /\ portalError' = got.message
                    /\ exitCode' = 1
                    /\ mainPc' = "exited"
                    /\ UNCHANGED portalUrl
               ELSE /\ portalUrl' = got.url
                    /\ mainPc' = "launch"
                    /\ UNCHANGED <<portalError, exitCode>>
    /\ UNCHANGED <<options, dom, mainCompletion, browser, browserCloseCalls,
                   tabs, allInvoices, invoicesToDownload, i, successCount,
                   failCount, summaryPrinted, attempts, outcomes,
                   listingError, accessToken, typed, prompts, verifiedTokens,
                   saves, helpPrinted, configVars, verifyVars, cliVars,
                   dlVars, filterVars, watchVars>>

\* await puppeteer.launch(...), outside the try block
MainLaunch ==
    /\ mainPc = "launch"
    /\ \/ /\ browser' = "open"
          /\ mainPc' = "newPage"
          /\ UNCHANGED mainCompletion
       \/ /\ mainPc' = "settled"
          /\ mainCompletion' = "throw"
          /\ UNCHANGED browser
    /\ UNCHANGED <<options, dom, browserCloseCalls, tabs, allInvoices,
                   invoicesToDownload, i, successCount, failCount,
                   summaryPrinted, exitCode, attempts, outcomes, listingError,
                   dlVars, filterVars, watchVars, setupVars>>

\* const page = await browser.newPage()
MainNewPage ==
    /\ mainPc = "newPage"
    /\ \/ /\ tabs' = Append(tabs, [kind |-> "listing", open |-> TRUE,
                                   closeCalls |-> 0])
          /\ mainPc' = "goto"
          /\ UNCHANGED mainCompletion
       \/ /\ Raise
          /\ UNCHANGED tabs
    /\ UNCHANGED <<options, dom, browser, browserCloseCalls, allInvoices,
                   invoicesToDownload, i, successCount, failCount,
                   summaryPrinted, exitCode, attempts, outcomes, listingError,
                   dlVars, filterVars, watchVars, setupVars>>

\* a getInvoiceUrls that catches a failed wait and returns no invoices
GetInvoiceUrlsWait_Converted ==
    /\ mainPc \in {"goto", "waitForSelector"}
    /\ \/ /\ mainPc' = IF mainPc = "goto" THEN "waitForSelector" ELSE "evaluate"
          /\ UNCHANGED <<listingError, allInvoices>>
       \/ /\ mainPc' = "select"
          /\ allInvoices' = <<>>
          /\ listingError' = mainPc
    /\ UNCHANGED <<options, dom, mainCompletion, browser, browserCloseCalls,
                   tabs, invoicesToDownload, i, successCount, failCount,
                   summaryPrinted, exitCode, attempts, outcomes, dlVars,
                   filterVars, watchVars, setupVars>>

\* getInvoiceUrls: page.goto, then page.waitForSelector with its 30 s
\* timeout; either may throw, and nothing in getInvoiceUrls catches
GetInvoiceUrlsWait ==
    /\ mainPc \in {"goto", "waitForSelector"}
    /\ \/ /\ mainPc' = IF mainPc = "goto" THEN "waitForSelector" ELSE "evaluate"
          /\ UNCHANGED <<mainCompletion, listingError>>
       \/ /\ Raise
          /\ listingError' = mainPc
    /\ UNCHANGED <<options, dom, browser, browserCloseCalls, tabs,
                   allInvoices, invoicesToDownload, i, successCount,
                   failCount, summaryPrinted, exitCode, attempts, outcomes,
                   dlVars, filterVars, watchVars, setupVars>>

\* getInvoiceUrls: page.evaluate and the return of its result
GetInvoiceUrlsEvaluate ==
    /\ mainPc = "evaluate"
    /\ \/ /\ allInvoices' = evaluateLinks(dom)
          /\ mainPc' = "select"
          /\ UNCHANGED <<mainCompletion, listingError>>
       \/ /\ Raise
          /\ listingError' = mainPc
          /\ UNCHANGED allInvoices
    /\ UNCHANGED <<options, dom, browser, browserCloseCalls, tabs,
                   invoicesToDownload, i, successCount, failCount,
                   summaryPrinted, exitCode, attempts, outcomes, dlVars,
                   filterVars, watchVars, setupVars>>

\* the invoices main selects: those of the month when -month is given,
\* else the first one unless --all is given
Selected(all, opts) ==
    IF opts.month # NoMonth THEN filterInvoicesByMonth(all, opts.month)
    ELSE IF ~opts.downloadAll THEN <<all[1]>>
    ELSE all

\* from the empty-listing test to the initialisation of the counters
MainSelect ==
    /\ mainPc = "select"
    /\ IF allInvoices = <<>> \/ Selected(allInvoices, options) = <<>>
       THEN /\ Return
            /\ UNCHANGED <<invoicesToDownload, i, successCount, failCount>>
       ELSE /\ invoicesToDownload' = Selected(allInvoices, options)
            /\ successCount' = 0
            /\ failCount' = 0
            /\ i' = 0
            /\ mainPc' = "loop"
            /\ UNCHANGED mainCompletion
    /\ UNCHANGED <<options, dom, browser, browserCloseCalls, tabs,
                   allInvoices, summaryPrinted, exitCode, attempts, outcomes,
                   listingError, dlVars, filterVars, watchVars, setupVars>>

\* the loop test holds: downloadInvoice is called for invoicesToDownload[i]
MainCallDownload ==
    /\ mainPc = "loop"
    /\ i < Len(invoicesToDownload)
    /\ mainPc' = "await"
    /\ dlPc' = "newPage"
    /\ dlUrl' = invoicesToDownload[i + 1].url
    /\ dlPage' = 0
    /\ dlDownloadedFile' = NoPath
    /\ dlResult' = NoResult
    /\ dlTrace' = <<>>
    /\ dlSink' = NoSink
    /\ attempts' = Append(attempts, invoicesToDownload[i + 1].url)
    /\ UNCHANGED <<options, dom, mainCompletion, browser, browserCloseCalls,
                   tabs, allInvoices, invoicesToDownload, i, successCount,
                   failCount, summaryPrinted, exitCode, outcomes,
                   listingError, filterVars, watchVars, setupVars>>

\* a loop body that counts only the successes
MainTally_FailuresUncounted ==
    /\ mainPc = "await"
    /\ dlPc = "returned"
    /\ successCount' = IF dlResult.success THEN successCount + 1
                       ELSE successCount
    /\ outcomes' = Append(outcomes, IF dlResult.success THEN "ok" ELSE "fail")
    /\ i' = i + 1
    /\ mainPc' = "loop"
    /\ dlPc' = "idle"
    /\ UNCHANGED <<options, dom, mainCompletion, browser, browserCloseCalls,
                   tabs, allInvoices, invoicesToDownload, failCount,
                   summaryPrinted, exitCode, attempts, listingError, dlUrl,
                   dlPage, dlDownloadedFile, dlResult, dlHistory, filterVars,
                   watchVars, setupVars>>

\* downloadInvoice returned: the result is tallied and the loop goes on
MainTally ==
    /\ mainPc = "await"
    /\ dlPc = "returned"
    /\ IF dlResult.success
       THEN /\ successCount' = successCount + 1
            /\ UNCHANGED failCount
       ELSE /\ failCount' = failCount + 1
            /\ UNCHANGED successCount
    /\ outcomes' = Append(outcomes, IF dlResult.success THEN "ok" ELSE "fail")
    /\ i' = i + 1
    /\ mainPc' = "loop"
    /\ dlPc' = "idle"
    /\ UNCHANGED <<options, dom, mainCompletion, browser, browserCloseCalls,
                   tabs, allInvoices, invoicesToDownload, summaryPrinted,
                   exitCode, attempts, listingError, dlUrl, dlPage,
                   dlDownloadedFile, dlResult, dlHistory, filterVars,
                   watchVars, setupVars>>

\* downloadInvoice rejected: nothing in the loop catches
MainDownloadRaised ==
    /\ mainPc = "await"
    /\ dlPc = "threw"
    /\ Raise
    /\ outcomes' = Append(outcomes, "threw")
    /\ dlPc' = "idle"
    /\ UNCHANGED <<options, dom, browser, browserCloseCalls, tabs,
                   allInvoices, invoicesToDownload, i, successCount,
                   failCount, summaryPrinted, exitCode, attempts,
                   listingError, dlUrl, dlPage, dlDownloadedFile, dlResult,
                   dlHistory, filterVars, watchVars, setupVars>>

\* the loop test fails: the summary is printed and the try block ends
MainSummary ==
    /\ mainPc = "loop"
    /\ ~(i < Len(invoicesToDownload))
    /\ summaryPrinted' = TRUE
    /\ Return
    /\ UNCHANGED <<options, dom, browser, browserCloseCalls, tabs,
                   allInvoices, invoicesToDownload, i, successCount,
                   failCount, exitCode, attempts, outcomes, listingError,
                   dlVars, filterVars, watchVars, setupVars>>

\* a main that closes the browser as the last statement of its try block
MainFinally_SkippedOnThrow ==
    /\ mainPc = "finally"
    /\ IF mainCompletion = "throw"
       THEN UNCHANGED <<browserCloseCalls, browser>>
       ELSE /\ browserCloseCalls' = browserCloseCalls + 1
            /\ browser' = "closed"
    /\ mainPc' = "settled"
    /\ UNCHANGED <<options, dom, mainCompletion, tabs, allInvoices,
                   invoicesToDownload, i, successCount, failCount,
                   summaryPrinted, exitCode, attempts, outcomes,
                   listingError, dlVars, filterVars, watchVars, setupVars>>

\* finally { await browser.close() }: a rejection of close() replaces the
\* completion of the try block
MainFinally ==
    /\ mainPc = "finally"
    /\ browserCloseCalls' = browserCloseCalls + 1
    /\ browser' = "closed"
    /\ mainPc' = "settled"
    /\ \/ UNCHANGED mainCompletion
       \/ mainCompletion' = "throw"
    /\ UNCHANGED <<options, dom, tabs, allInvoices, invoicesToDownload, i,
                   successCount, failCount, summaryPrinted, exitCode,
                   attempts, outcomes, listingError, dlVars, filterVars,
                   watchVars, setupVars>>

\* the exit status once main's promise settled: the handler of
\* main().catch exits with 1; a fulfilled main lets the process end with 0
ExitStatus(completion) == IF completion = "throw" THEN 1 ELSE 0

MainExit ==
    /\ mainPc = "settled"
    /\ exitCode' = ExitStatus(mainCompletion)
    /\ mainPc' = "exited"
    /\ UNCHANGED <<options, dom, mainCompletion, browser, browserCloseCalls,
                   tabs, allInvoices, invoicesToDownload, i, successCount,
                   failCount, summaryPrinted, attempts, outcomes,
                   listingError, dlVars, filterVars, watchVars, setupVars>>

-----------------------------------------------------------------------------
(* Spec *)

\* getValidAccessToken has not been called
TokenIdle ==
    /\ accessToken = NoToken
    /\ typed = NoToken
    /\ prompts = 0
    /\ verifiedTokens = {}
    /\ saves = <<>>
    /\ portalUrl = NoUrl
    /\ portalError = NoError
    /\ helpPrinted = FALSE

FilterIdle ==
    /\ fInvoices = <<>>
    /\ fTarget = Target_2024_01
    /\ fPc = "off"
    /\ fResult = <<>>
    /\ fAgain = <<>>
    /\ fRefiltered = <<>>
    /\ fDom = <<>>

InitMain ==
    /\ options \in [month : TargetMonths \cup {NoMonth}, downloadAll : BOOLEAN,
                     showHelp : BOOLEAN, clearConfig : BOOLEAN]
    /\ dom \in SeqsUpTo(PortalLinks, MaxLinks)
    /\ mainPc = "loadConfig"
    /\ mainCompletion = "none"
    /\ browser = "none"
    /\ browserCloseCalls = 0
    /\ tabs = <<>>
    /\ allInvoices = <<>>
    /\ invoicesToDownload = <<>>
    /\ i = 0
    /\ successCount = 0
    /\ failCount = 0
    /\ summaryPrinted = FALSE
    /\ exitCode = -1
    /\ attempts = <<>>
    /\ outcomes = <<>>
    /\ listingError = "none"
    /\ dlPc = "idle"
    /\ dlUrl = ""
    /\ dlPage = 0
    /\ dlDownloadedFile = NoPath
    /\ dlResult = NoResult
    /\ dlTrace = <<>>
    /\ dlSink = NoSink
    /\ TokenIdle

\* the config file main finds: none, one that is not JSON, or one saved by
\* an earlier run
InitMainConfig ==
    /\ configFile \in {NoFile, Text_notValidJson}
                       \cup {saveConfig(t) : t \in MainTokens}
    /\ cFileMode = (IF configFile = NoFile THEN NoMode
                    ELSE IF configFile = Text_notValidJson THEN "0644"
                    ELSE "0600")
    /\ cDirMode = (IF configFile = NoFile THEN NoMode
                   ELSE IF configFile = Text_notValidJson THEN "0755"
                   ELSE "0700")
    /\ cLastSaved = NoToken
    /\ cLoaded = NotLoaded
    /\ cSaveCount = 0
    /\ cOp = "none"
    /\ cRaised = FALSE

Init ==
    /\ InitMain
    /\ InitMainConfig
    /\ FilterIdle
    /\ WatcherIdle
    /\ VerifyIdle
    /\ CliIdle

Next ==
    \/ MainHelp
    \/ MainClear
    \/ GetValidAccessTokenSaved
    \/ GetValidAccessTokenPrompt
    \/ GetValidAccessTokenVerify
    \/ MainPortal
    \/ MainLaunch
    \/ MainNewPage
    \/ GetInvoiceUrlsWait
    \/ GetInvoiceUrlsEvaluate
    \/ MainSelect
    \/ MainCallDownload
    \/ DlNewPage
    \/ DlTryStep
    \/ DlWatch
    \/ DlClose
    \/ MainTally
    \/ MainDownloadRaised
    \/ MainSummary
    \/ MainFinally
    \/ MainExit

Spec == Init /\ [][Next]_vars

-----------------------------------------------------------------------------
(* C1 - C6: downloadInvoice and the download loop of main *)

\* the downloadInvoice call is between its newPage and the end of its
\* finally block
DlRunning ==
    dlPc \in {"mkdir", "cdp", "goto", "waitForSelector", "click", "watch",
              "finally"}

Urls(invoices) == [k \in 1..Len(invoices) |-> invoices[k].url]

\* C1: downloadInvoice never raises past its own boundary: whatever step
\* fails, opening and closing the tab included, the call completes by
\* returning a DownloadResult.
C1_NeverRaises ==
    /\ dlPc # "threw"
    /\ (dlPc = "returned" => dlResult.set)

\* C2: every tab downloadInvoice opened has had close() invoked exactly once
\* by the time its call completed, whichever step failed or none, and not
\* before the finally block.
C2_TabClosedExactlyOnce ==
    \A t \in DownloadTabs :
        tabs[t].closeCalls = IF t = dlPage /\ DlRunning THEN 0 ELSE 1

\* a call whose button wait failed has completed, its tab closed once
C2_Witness ==
    /\ dlPc = "returned"
    /\ dlResult.error = "waitForSelector"
    /\ dlPage \in DownloadTabs
    /\ tabs[dlPage].closeCalls = 1

\* C3: a returned DownloadResult has exactly one of filePath and error:
\* success=true exactly when filePath is set, to the watcher's result, and
\* error is absent; success=false exactly when error is set and filePath is
\* absent.
C3_ExactlyOneOfPathAndError ==
    dlPc = "returned" =>
        /\ dlResult.set
        /\ dlResult.success <=> dlResult.filePath # NoPath
        /\ dlResult.success <=> dlResult.error = "none"
        /\ dlResult.success =>
               /\ dlDownloadedFile # NoPath
               /\ dlResult.filePath = dlDownloadedFile

\* after a successful download, a second call has returned a failure
C3_Witness ==
    /\ dlPc = "returned"
    /\ outcomes = <<"ok">>
    /\ ~dlResult.success
    /\ dlResult.error = "Download timed out"

\* C4: the download loop attempts every selected invoice exactly once and in
\* list order whatever the earlier outcomes, and reaches the summary.
C4_BatchNeverHalts ==
    /\ \E n \in 0..Len(invoicesToDownload) :
           attempts = SubSeq(Urls(invoicesToDownload), 1, n)
    /\ (mainPc = "exited" /\ invoicesToDownload # <<>>) =>
           /\ attempts = Urls(invoicesToDownload)
           /\ summaryPrinted

\* C5: at most one download tab is open at any moment; when a call opens its
\* tab every earlier download tab is closed, and a running watcher's tab is
\* the only open download tab.
C5_OneDownloadTabAtATime ==
    /\ Cardinality(OpenDownloadTabs) <= 1
    /\ (dlPc = "newPage" => OpenDownloadTabs = {})
    /\ (dlPc = "watch" => OpenDownloadTabs = {dlPage})

\* the watcher of the second invoice is running
C5_Witness ==
    /\ dlPc = "watch"
    /\ Len(attempts) = 2
    /\ Cardinality(DownloadTabs) = 2

\* C6: when getInvoiceUrls fails, it throws to main and returns nothing; main
\* goes straight to its finally block: no downloadInvoice call, no summary,
\* and the process exits with status 1.
C6_ListingFailureHalts ==
    listingError # "none" =>
        /\ allInvoices = <<>>
        /\ mainCompletion = "throw"
        /\ mainPc \in {"finally", "settled", "exited"}
        /\ attempts = <<>>
        /\ DownloadTabs = {}
        /\ ~summaryPrinted
        /\ (mainPc = "exited" => exitCode = 1)

\* the wait for the invoice links timed out and the process has exited
C6_Witness ==
    /\ listingError = "waitForSelector"
    /\ mainPc = "exited"
    /\ exitCode = 1
    /\ browserCloseCalls = 1

-----------------------------------------------------------------------------
(* SpecFilter *)

\* main is not running
MainIdle ==
    /\ options = [month |-> NoMonth, downloadAll |-> FALSE,
                  showHelp |-> FALSE, clearConfig |-> FALSE]
    /\ dom = <<>>
    /\ mainPc = "off"
    /\ mainCompletion = "none"
    /\ browser = "none"
    /\ browserCloseCalls = 0
    /\ tabs = <<>>
    /\ allInvoices = <<>>
    /\ invoicesToDownload = <<>>
    /\ i = 0
    /\ successCount = 0
    /\ failCount = 0
    /\ summaryPrinted = FALSE
    /\ exitCode = -1
    /\ attempts = <<>>
    /\ outcomes = <<>>
    /\ listingError = "none"
    /\ dlPc = "idle"
    /\ dlUrl = ""
    /\ dlPage = 0
    /\ dlDownloadedFile = NoPath
    /\ dlResult = NoResult
    /\ dlTrace = <<>>
    /\ dlSink = NoSink
    /\ TokenIdle

InitFilter ==
    /\ MainIdle
    /\ WatcherIdle
    /\ ConfigIdle
    /\ VerifyIdle
    /\ CliIdle
    /\ fInvoices \in SeqsUpTo(SampleInvoices, MaxInvoices)
    /\ fTarget \in TargetMonths
    /\ fPc = "ready"
    /\ fResult = <<>>
    /\ fAgain = <<>>
    /\ fRefiltered = <<>>
    /\ fDom = <<>>

\* a filter that works in place: the argument array is left holding the
\* result
FilterCall_InPlace ==
    /\ fPc = "ready"
    /\ fResult' = filterInvoicesByMonth(fInvoices, fTarget)
    /\ fInvoices' = fResult'
    /\ fPc' = "done"
    /\ UNCHANGED <<fTarget, fAgain, fRefiltered, fDom, mainVars, dlVars,
                   watchVars, setupVars>>

\* filterInvoicesByMonth(invoices, targetMonth): Array.prototype.filter
\* builds a new array and leaves invoices as it was
FilterCall ==
    /\ fPc = "ready"
    /\ fResult' = filterInvoicesByMonth(fInvoices, fTarget)
    /\ fPc' = "done"
    /\ UNCHANGED <<fInvoices, fTarget, fAgain, fRefiltered, fDom, mainVars,
                   dlVars, watchVars, setupVars>>

\* a second call with the same arguments
FilterAgain ==
    /\ fPc = "done"
    /\ fAgain' = filterInvoicesByMonth(fInvoices, fTarget)
    /\ fPc' = "again"
    /\ UNCHANGED <<fInvoices, fTarget, fResult, fRefiltered, fDom, mainVars,
                   dlVars, watchVars, setupVars>>

\* a call on the result of the first call, for the same month
FilterRefilter ==
    /\ fPc = "again"
    /\ fRefiltered' = filterInvoicesByMonth(fResult, fTarget)
    /\ fPc' = "refiltered"
    /\ UNCHANGED <<fInvoices, fTarget, fResult, fAgain, fDom, mainVars,
                   dlVars, watchVars, setupVars>>

NextFilter ==
    \/ FilterCall
    \/ FilterAgain
    \/ FilterRefilter

SpecFilter == InitFilter /\ [][NextFilter]_vars

-----------------------------------------------------------------------------
(* SpecWatcher *)

InitWatch ==
    /\ InitWatcher
    /\ MainIdle
    /\ FilterIdle
    /\ ConfigIdle
    /\ VerifyIdle
    /\ CliIdle

NextWatch ==
    \/ EnvCreate
    \/ EnvWrite
    \/ WatcherStart
    \/ WatcherPoll
    \/ WatcherSleep
    \/ WatcherStabilize

SpecWatcher == InitWatch /\ [][NextWatch]_vars

-----------------------------------------------------------------------------
(* C7 - C9: waitForFileDownload *)

WatcherDone == wPc \in {"returned", "timedOut"}

\* the .pdf files now in the directory that were not there at the call;
\* files are never removed, so these are all that ever appeared
NewPdfs == {f \in PdfNames : dirFiles[f] # Absent} \ pdfsAtCall

\* C7: a call during which no new .pdf file appeared ends in the timeout
\* error, and the timeout error is raised only when at least timeout ms have
\* passed since the call started.
C7_TimeoutNotBeforeTimeoutMs ==
    /\ wPc = "timedOut" =>
           /\ now - startTime >= timeout
           /\ wReturn = NoPath
    /\ (WatcherDone /\ NewPdfs = {}) => wPc = "timedOut"

\* a call with a 1500 ms timeout has timed out after its second poll sleep,
\* an old .pdf and a new non-.pdf file in the directory
C7_Witness ==
    /\ wPc = "timedOut"
    /\ timeout = 3 * TickMs
    /\ now - startTime = 2 * PollSleepMs
    /\ pdfsAtCall = {File_a_pdf}
    /\ dirFiles[File_b_crdownload] # Absent
    /\ NewPdfs = {}

\* C8: the returned path is that of a file of the directory whose name ends
\* in .pdf and which was not in the directory at the call.
C8_ReturnsOnlyNewPdf ==
    wPc = "returned" =>
        \E f \in PdfNames \ pdfsAtCall :
            /\ wReturn = join(DownloadDir, f)
            /\ dirFiles[f] # Absent

\* b.pdf is returned from a directory that held a.pdf at the call and holds
\* a non-.pdf file
C8_Witness ==
    /\ wPc = "returned"
    /\ wReturn = join(DownloadDir, File_b_pdf)
    /\ pdfsAtCall = {File_a_pdf}
    /\ dirFiles[File_a_pdf] = MaxSize
    /\ dirFiles[File_b_crdownload] # Absent

\* a size reading is taken: at least 500 ms after the step began; the call
\* returns the chosen file's path if the reading is non-zero and equal to
\* the reading before it, or if it is the 10th reading, and otherwise goes on
\* to the next reading
C9_Reading ==
    reads' = reads + 1 =>
        /\ now' - now >= StabSleepMs
        /\ lastRead' = dirFiles[FileOf(newFile)]
        /\ IF (lastRead' > 0 /\ lastRead' = lastRead) \/ reads' = StabIterations
           THEN wPc' = "returned" /\ wReturn' = newFile
           ELSE wPc' = "stabilize" /\ wReturn' = NoPath

\* C9: once a new file is chosen the call only takes size readings: it
\* returns that file's path at the first reading that is non-zero and equal
\* to the previous one, else after the 10th reading whatever the sizes, and
\* never polls again or times out.
C9_StabilisationReturns ==
    /\ [](newFile # NoPath =>
            /\ wPc \in {"stabilize", "returned"}
            /\ reads <= StabIterations
            /\ (wPc = "returned" => reads >= 2 /\ wReturn = newFile))
    /\ [][C9_Reading]_vars

\* the path is returned after the 10th reading, which read an empty file
C9_Witness ==
    /\ wPc = "returned"
    /\ reads = StabIterations
    /\ lastRead = 0
    /\ now - startTime >= timeout

-----------------------------------------------------------------------------
(* C10 *)

\* the classifier's verdict on element i of the filter's input
FilterMatchAt(n) ==
    LET parts == split(fTarget, "-")
    IN  matchesMonth(fInvoices[n].date, parts[1], parts[2])

FilterMatchIdx == {n \in 1..Len(fInvoices) : FilterMatchAt(n)}

\* the k-th smallest member of a set of numbers
KthOf(S, k) == CHOOSE x \in S : Cardinality({y \in S : y < x}) = k - 1

\* C10: the result of filterInvoicesByMonth is exactly the matching input
\* elements, each once per occurrence and in input order: its length is the
\* number of matching positions and its k-th element is the input element at
\* the k-th matching position; the empty input gives the empty output.
C10_FilterIsStableSubsequence ==
    fPc = "done" =>
        /\ Len(fResult) = Cardinality(FilterMatchIdx)
        /\ \A k \in 1..Len(fResult) :
               fResult[k] = fInvoices[KthOf(FilterMatchIdx, k)]
        /\ (fInvoices = <<>> => fResult = <<>>)

\* a call on an input with a repeated matching invoice and a non-matching
\* one in between has returned
C10_Witness ==
    /\ fPc = "done"
    /\ Len(fInvoices) = 3
    /\ fInvoices[1] = fInvoices[3]
    /\ FilterMatchAt(1)
    /\ ~FilterMatchAt(2)
    /\ Len(fResult) = 2

-----------------------------------------------------------------------------
(* SpecClassifier: filterInvoicesByMonth on single invoices whose dates are *)
(* generated in every documented form, against every valid target month    *)

\* the years the generated dates and targets range over, from 2023 on
MaxYears == 2

\* String.prototype.toUpperCase
toUpperCase(s) ==
    [k \in 1..Len(s) |->
        IF \E j \in 1..26 : LowerChars[j] = s[k]
        THEN UpperChars[CHOOSE j \in 1..26 : LowerChars[j] = s[k]]
        ELSE s[k]]

\* a month name written as the portal and the tests write it: "jan", "Jan"
\* or "JAN"
InCase(name, case) ==
    IF case = "lower" THEN name
    ELSE IF case = "upper" THEN toUpperCase(name)
    ELSE toUpperCase(SubSeq(name, 1, 1)) \o SubSeq(name, 2, Len(name))

LetterCases == {"lower", "title", "upper"}

DateForms == {"abbreviation", "full", "iso"}

\* the text of year number 2023 + k
YearText(k) == <<"2", "0">> \o String(23 + k)

Years == {YearText(k) : k \in 0..(MaxYears - 1)}

\* the days of the month the generated dates use
Days == {1, 20}

\* what a generated date says: its form, the letter case of its month name,
\* its month number, its day and its year
DateDescs ==
    [form : DateForms, case : LetterCases, monthNum : 1..12, day : Days,
     yearText : Years]

\* the date a description stands for: "Jan 20, 2024", "JANUARY 1, 2024",
\* "2024-01-20"
DateOf(desc) ==
    IF desc.form = "iso"
    THEN desc.yearText \o <<"-">> \o padStart(String(desc.monthNum), 2, "0")
         \o <<"-">> \o padStart(String(desc.day), 2, "0")
    ELSE InCase(IF desc.form = "full" THEN longMonthNames[desc.monthNum]
                ELSE monthNames[desc.monthNum], desc.case)
         \o <<" ">> \o String(desc.day) \o <<",", " ">> \o desc.yearText

\* every description with the date it stands for
DatePairs == {<<desc, DateOf(desc)>> : desc \in DateDescs}

DatedInvoices ==
    {[url |-> "invoice1", date |-> pair[2]] : pair \in DatePairs}

\* the -month values parseArgs lets through, of the years of the model
ValidTargets ==
    {t \in {y \o <<"-">> \o padStart(String(n), 2, "0") :
                y \in Years, n \in 0..13} : isValidMonthFormat(t)}

\* the invoices the extraction gives for links without a date in their row,
\* and an invoice with an empty date
UndatedInvoices ==
    {extractInvoice(a) :
        a \in {l \in PortalLinks : dateMatch(IF l.hasTr THEN l.trText
                                             ELSE l.parentText) = <<>>}}
    \cup {[url |-> "invoice8", date |-> <<>>]}

Date_Mar20_2024 == <<"M","a","r"," ","2","0",","," ","2","0","2","4">>
Date_January5_2024 ==
    <<"J","a","n","u","a","r","y"," ","5",","," ","2","0","2","4">>

\* testInvoices of tests/download.test.ts
testInvoices ==
    << [url |-> "invoice1", date |-> Date_Jan15_2024],
       [url |-> "invoice2", date |-> Date_February1_2024],
       [url |-> "invoice3", date |-> Date_Mar20_2024],
       [url |-> "invoice4", date |-> Date_Iso_2024_01_10],
       [url |-> "invoice5", date |-> Date_Dec25_2023],
       [url |-> "invoice6", date |-> Date_January5_2024] >>

InitClassifier ==
    /\ MainIdle
    /\ WatcherIdle
    /\ ConfigIdle
    /\ VerifyIdle
    /\ CliIdle
    /\ fInvoices \in {<<inv>> : inv \in DatedInvoices \cup UndatedInvoices}
                     \cup {testInvoices}
    /\ fTarget \in ValidTargets
    /\ fPc = "ready"
    /\ fResult = <<>>
    /\ fAgain = <<>>
    /\ fRefiltered = <<>>
    /\ fDom = <<>>

NextClassifier == FilterCall

SpecClassifier == InitClassifier /\ [][NextClassifier]_vars

-----------------------------------------------------------------------------
(* C11, C12 *)

\* the filter kept element n of its input
FilterKept(n) == \E k \in 1..Len(fResult) : fResult[k] = fInvoices[n]

\* the month number of the target, and its year
TargetMonthNum == CHOOSE n \in 1..12 :
                      padStart(String(n), 2, "0") = split(fTarget, "-")[2]
TargetYear == split(fTarget, "-")[1]

\* C11: an invoice dated 'Mon D, YYYY' or 'Month D, YYYY' (abbreviation or
\* full name, in any letter case) or 'YYYY-MM-DD' is included by
\* filterInvoicesByMonth for a valid target if and only if the month and the
\* year of its date are those of the target; the invoices of the test suite
\* give the 1st, 4th and 6th for 2024-01 and the 2nd for 2024-02.
C11_IncludedIffMonthAndYear ==
    fPc = "done" =>
        /\ \A n \in 1..Len(fInvoices) : \A pair \in DatePairs :
               pair[2] = fInvoices[n].date =>
                   (FilterKept(n) <=> /\ pair[1].monthNum = TargetMonthNum
                                      /\ pair[1].yearText = TargetYear)
        /\ (fInvoices = testInvoices /\ fTarget = Target_2024_01) =>
               fResult = <<testInvoices[1], testInvoices[4], testInvoices[6]>>
        /\ (fInvoices = testInvoices /\ fTarget = Target_2024_02) =>
               fResult = <<testInvoices[2]>>

\* "JANUARY 20, 2024" was kept for 2024-01
C11_Witness ==
    /\ fPc = "done"
    /\ fInvoices = <<[url |-> "invoice1",
                      date |-> DateOf([form |-> "full", case |-> "upper",
                                       monthNum |-> 1, day |-> 20,
                                       yearText |-> YearText(1)])]>>
    /\ fTarget = Target_2024_01
    /\ fResult = fInvoices

\* C12: the classifier gives a verdict, and the verdict is false, for the
\* sentinel date "unknown" and for the empty string whatever the valid
\* target: an invoice whose row yielded no date is never in the result of
\* filterInvoicesByMonth.
C12_UndatedNeverMatches ==
    fPc = "done" =>
        \A n \in 1..Len(fInvoices) :
            fInvoices[n].date \in {Date_unknown, <<>>} =>
                /\ matchesMonth(fInvoices[n].date, TargetYear,
                                split(fTarget, "-")[2]) = FALSE
                /\ ~FilterKept(n)

\* the invoice extracted from a row without a date was filtered out
C12_Witness ==
    /\ fPc = "done"
    /\ Len(fInvoices) = 1
    /\ fInvoices[1] \in UndatedInvoices
    /\ fInvoices[1].date = Date_unknown
    /\ fInvoices[1].url = "invoice7"
    /\ fResult = <<>>

-----------------------------------------------------------------------------
(* C13 *)

-----------------------------------------------------------------------------
(* C14 - C16: the listing and the selection of main *)

\* getInvoiceUrls has returned its listing to main
Listed == mainPc \in {"select", "loop", "await"} \/ attempts # <<>>

\* C14: getInvoiceUrls returns one record per invoice link of the page, in
\* DOM order, without deduplication or sorting: record k carries the href of
\* link k, so the first link of the page is the first element of the result.
C14_OneRecordPerLinkInDomOrder ==
    Listed =>
        /\ Len(allInvoices) = Len(dom)
        /\ \A k \in 1..Len(dom) : allInvoices[k].url = dom[k].href
        /\ (dom # <<>> => allInvoices[1].url = dom[1].href)

\* a page with the same link twice was listed as two records
C14_Witness ==
    /\ mainPc = "select"
    /\ Len(dom) = 2
    /\ dom[1].href = dom[2].href
    /\ Len(allInvoices) = 2
    /\ allInvoices[1] = allInvoices[2]


\* C15: with neither -month nor --all, downloadInvoice is called exactly
\* once, for the first element of the listing; with --all and no -month it
\* is called exactly once for every listed invoice, in listing order.
C15_DefaultFirstAllEvery ==
    (allInvoices # <<>> /\ options.month = NoMonth) =>
        LET wanted == IF options.downloadAll THEN Urls(allInvoices)
                      ELSE <<allInvoices[1].url>>
        IN  /\ \E n \in 0..Len(wanted) : attempts = SubSeq(wanted, 1, n)
            /\ (mainPc = "exited" => attempts = wanted)

\* C16: with -month M the invoices downloaded are exactly those
\* filterInvoicesByMonth returns for M, all of them and in listing order,
\* with or without --all; when none match, no download tab is opened and
\* downloadInvoice is not called.
C16_MonthDownloadsExactlyTheFiltered ==
    (allInvoices # <<>> /\ options.month # NoMonth) =>
        LET wanted == Urls(filterInvoicesByMonth(allInvoices, options.month))
        IN  /\ \E n \in 0..Len(wanted) : attempts = SubSeq(wanted, 1, n)
            /\ (mainPc = "exited" => attempts = wanted)
            /\ (wanted = <<>> => DownloadTabs = {})

-----------------------------------------------------------------------------
(* SpecVerify *)

InitVerify ==
    /\ MainIdle
    /\ ConfigIdle
    /\ CliIdle
    /\ FilterIdle
    /\ WatcherIdle
    /\ vPc = "ready"
    /\ vToken \in MainTokens
    /\ vFetch \in FetchOutcomes(HttpStatuses)
    /\ vResult = [valid |-> FALSE, error |-> NoError]

NextVerify == VerifyCall

SpecVerify == InitVerify /\ [][NextVerify]_vars

-----------------------------------------------------------------------------
(* SpecConfig *)

InitConfig ==
    /\ MainIdle
    /\ VerifyIdle
    /\ CliIdle
    /\ FilterIdle
    /\ WatcherIdle
    /\ configFile \in {NoFile} \cup ForeignContents
    /\ cDirMode \in {NoMode} \cup DirModes
    /\ cFileMode \in {NoMode} \cup FileModes
    /\ (configFile = NoFile) = (cFileMode = NoMode)
    /\ cDirMode = NoMode => cFileMode = NoMode
    /\ cLastSaved = NoToken
    /\ cLoaded = NotLoaded
    /\ cSaveCount = 0
    /\ cOp = "none"
    /\ cRaised = FALSE

NextConfig ==
    \/ ConfigSave
    \/ ConfigLoad
    \/ ConfigDelete

SpecConfig == InitConfig /\ [][NextConfig]_vars

-----------------------------------------------------------------------------
(* C17 - C20: the token, the portal request and the config file *)

\* C17: verifyAccessToken always returns a verdict: valid with no error
\* exactly when the response is ok; for 401 and 403 invalid with the
\* "invalid or expired" error; for another status invalid with the
\* "Unexpected response" error naming the status; for a request that failed
\* invalid with the "Network error" message carrying the cause.
C17_VerdictForEveryOutcome ==
    vPc = "done" =>
        /\ vResult.valid \in BOOLEAN
        /\ vResult.valid <=>
               (vFetch.kind = "response" /\ ResponseOk(vFetch.status))
        /\ vResult.valid => vResult.error = NoError
        /\ (vFetch.kind = "response" /\ vFetch.status \in {401, 403}) =>
               /\ ~vResult.valid
               /\ vResult.error.text = "Access token is invalid or expired"
        /\ (/\ vFetch.kind = "response"
            /\ ~ResponseOk(vFetch.status)
            /\ vFetch.status \notin {401, 403}) =>
               /\ ~vResult.valid
               /\ vResult.error.text = "Unexpected response: HTTP "
               /\ vResult.error.status = vFetch.status
        /\ vFetch.kind = "rejected" =>
               /\ ~vResult.valid
               /\ vResult.error.text = "Network error: "
               /\ (vFetch.error.isError =>
                       vResult.error.cause = vFetch.error.message)

\* a 403 whose body could not be read was answered with the verdict
C17_Witness ==
    /\ vPc = "done"
    /\ vFetch.kind = "response"
    /\ vFetch.status = 403
    /\ ~vFetch.textReadable
    /\ ~vResult.valid
    /\ vResult.error.text = "Access token is invalid or expired"

\* C18: the stages run in order: the portal URL is requested with a token
\* verified valid, the browser is launched only after a verified token and a
\* portal URL have been obtained, the listing and the downloads come after
\* the launch; when the portal request fails the process exits with status
\* 1 and no browser is launched.
C18_StagesInOrder ==
    /\ mainPc = "portal" => accessToken \in verifiedTokens
    /\ (mainPc = "launch" \/ browser # "none") =>
           /\ accessToken # NoToken
           /\ accessToken \in verifiedTokens
           /\ portalUrl # NoUrl
           /\ portalError = NoError
    /\ (tabs # <<>> \/ allInvoices # <<>> \/ attempts # <<>>) =>
           browser # "none"
    /\ portalError # NoError =>
           /\ mainPc = "exited"
           /\ exitCode = 1
           /\ browser = "none"
           /\ tabs = <<>>

\* the portal answered without a url to a token typed at the prompt: the
\* process has exited with status 1, no browser launched
C18_Witness ==
    /\ portalError.text = "Customer portal URL not found in response"
    /\ prompts = 1
    /\ accessToken = typed
    /\ mainPc = "exited"
    /\ exitCode = 1
    /\ browser = "none"

\* a step of the prompt loop that ends with an empty answer or an invalid
\* token: it leads to another prompt, with nothing returned or saved
C19_Retry ==
    /\ (mainPc = "prompt" /\ prompts' = prompts + 1 /\ typed' = NoToken) =>
           /\ mainPc' = "prompt"
           /\ accessToken' = NoToken
           /\ saves' = saves
           /\ configFile' = configFile
    /\ (mainPc = "verifyTyped" /\ typed \notin verifiedTokens') =>
           /\ mainPc' = "prompt"
           /\ accessToken' = NoToken
           /\ saves' = saves
           /\ configFile' = configFile

\* C19: getValidAccessToken returns only a token verifyAccessToken found
\* valid in this run and saveConfig is called only with such a token; a
\* saved token that verifies is returned with no write; a typed token is
\* saved once, after it verified; an empty or invalid answer leads to
\* another prompt, never to a return or a save.
C19_OnlyVerifiedTokens ==
    /\ [](/\ accessToken # NoToken => accessToken \in verifiedTokens
          /\ \A k \in 1..Len(saves) : saves[k] \in verifiedTokens
          /\ (accessToken # NoToken /\ prompts = 0) =>
                 /\ saves = <<>>
                 /\ loadConfig(configFile).accessToken = accessToken
          /\ (accessToken # NoToken /\ prompts > 0) =>
                 /\ saves = <<accessToken>>
                 /\ typed = accessToken
                 /\ loadConfig(configFile).accessToken = accessToken
          /\ mainPc \in {"loadConfig", "prompt", "verifyTyped"} =>
                 /\ accessToken = NoToken
                 /\ saves = <<>>
                 /\ verifiedTokens = {})
    /\ [][C19_Retry]_vars

\* the second answer at the prompt verified: it was saved and returned
C19_Witness ==
    /\ mainPc = "portal"
    /\ prompts = 2
    /\ accessToken = Token_quote
    /\ saves = <<Token_quote>>
    /\ configFile = saveConfig(Token_quote)

\* C20: after saveConfig({accessToken: t}) for a non-empty t, loadConfig
\* returns a config whose accessToken is t and configExists is true; after
\* several saves the token loaded is that of the last one.
C20_ConfigRoundTrip ==
    cLastSaved # NoToken =>
        /\ configExists(configFile)
        /\ loadConfig(configFile) =
               [isNull |-> FALSE, accessToken |-> cLastSaved]
        /\ (cLoaded # NotLoaded =>
                cLoaded = [isNull |-> FALSE, accessToken |-> cLastSaved])

\* after two saves a token made of a quote, a backslash and a newline was
\* loaded back
C20_Witness ==
    /\ cSaveCount = 2
    /\ cLastSaved = <<"\"", "\\", "\n">>
    /\ cLoaded = [isNull |-> FALSE, accessToken |-> cLastSaved]

-----------------------------------------------------------------------------
(* C21, C22: loadConfig, deleteConfig and the permissions saveConfig leaves *)

\* C21: loadConfig does not throw; it returns null for a missing file, for
\* a text that is not JSON and for an object without a non-empty string
\* accessToken, and the stored config otherwise; deleteConfig does not
\* throw, on a missing file either, and leaves no config file.
C21_LoadAndDeleteNeverRaise ==
    /\ cOp = "load" =>
           /\ ~cRaised
           /\ configFile = NoFile => cLoaded = Null
           /\ configFile \in ForeignContents \ {Text_compactToken} =>
                  cLoaded = Null
           /\ configFile = Text_compactToken =>
                  cLoaded = [isNull |-> FALSE, accessToken |-> <<"a">>]
           /\ \A t \in TokenStrings :
                  configFile = saveConfig(t) =>
                      cLoaded = [isNull |-> FALSE, accessToken |-> t]
    /\ cOp = "delete" =>
           /\ ~cRaised
           /\ ~configExists(configFile)

\* a file whose accessToken is a number was loaded as null
C21_Witness ==
    /\ cOp = "load"
    /\ configFile = Text_numberToken
    /\ cLoaded = Null
    /\ ~cRaised

\* C22: after a saveConfig call the config file has mode 0600 and the
\* config directory mode 0700, whatever they were before the call.
C22_OwnerOnlyAfterSave ==
    cOp = "save" =>
        /\ cFileMode = "0600"
        /\ cDirMode = "0700"

-----------------------------------------------------------------------------
(* SpecCli: parseArgs applied to every argument list of the model *)

InitCli ==
    /\ MainIdle
    /\ ConfigIdle
    /\ VerifyIdle
    /\ FilterIdle
    /\ WatcherIdle
    /\ argv \in SeqsUpTo(ArgStrings, MaxArgs)
    /\ cliPc = "ready"
    /\ cliResult = Returned(DefaultOptions)

NextCli == CliParse

SpecCli == InitCli /\ [][NextCli]_vars

-----------------------------------------------------------------------------
(* C23: the month of the options parseArgs returns *)

\* four digits, a hyphen and the two digits of a month from 01 to 12
IsYearMonth(s) ==
    /\ Len(s) = 7
    /\ \A k \in 1..4 : \E d \in 0..9 : <<s[k]>> = String(d)
    /\ s[5] = "-"
    /\ \E n \in 1..12 : SubSeq(s, 6, 7) = padStart(String(n), 2, "0")

\* C23: the options parseArgs returns have month null or a YYYY-MM string
\* with a month from 01 to 12; a -month value that is not one makes parseArgs
\* exit with status 1 instead of returning.
C23_ReturnedMonthIsValid ==
    cliPc = "done" =>
        /\ ~cliResult.exited =>
               \/ cliResult.options.month = NoMonth
               \/ IsYearMonth(cliResult.options.month)
        /\ cliResult.exited => cliResult.status = 1
        /\ (/\ Len(argv) >= 2
            /\ argv[1] = Arg_month
            /\ ~IsYearMonth(argv[2])) => cliResult.exited
        /\ (~cliResult.exited /\ cliResult.options.month # NoMonth) =>
               \E k \in 1..(Len(argv) - 1) :
                   /\ argv[k] = Arg_month
                   /\ argv[k + 1] = cliResult.options.month

\* -month 2024-13 after --all: parseArgs exited with status 1
C23_Witness ==
    /\ cliPc = "done"
    /\ argv = <<Arg_all, Arg_month, <<"2","0","2","4","-","1","3">>>>
    /\ cliResult.exited
    /\ cliResult.status = 1

-----------------------------------------------------------------------------
(* C24: the help and --clear paths of main *)

\* with showHelp or clearConfig set, the step main takes after parseArgs
\* ends the process with status 0
C24_ExitsAtOnce ==
    (mainPc = "loadConfig" /\ (options.showHelp \/ options.clearConfig)) =>
        /\ mainPc' = "exited"
        /\ exitCode' = 0

\* C24: with the help flag or --clear the run exits with status 0 before
\* any token verification, prompt, portal request or browser launch; the
\* help path prints the help text, the --clear path deletes the config file.
C24_HelpAndClearExitFirst ==
    /\ []((options.showHelp \/ options.clearConfig) =>
              /\ mainPc \in {"loadConfig", "exited"}
              /\ verifiedTokens = {}
              /\ prompts = 0
              /\ saves = <<>>
              /\ accessToken = NoToken
              /\ portalUrl = NoUrl
              /\ portalError = NoError
              /\ browser = "none"
              /\ tabs = <<>>
              /\ mainPc = "exited" =>
                     /\ exitCode = 0
                     /\ options.showHelp => helpPrinted
                     /\ ~options.showHelp =>
                            /\ ~configExists(configFile)
                            /\ ~helpPrinted)
    /\ [](helpPrinted => options.showHelp)
    /\ [][C24_ExitsAtOnce]_vars

\* --clear with a saved token on disk: the file is gone and the process has
\* exited with status 0
C24_Witness ==
    /\ options.clearConfig
    /\ ~options.showHelp
    /\ mainPc = "exited"
    /\ exitCode = 0
    /\ configFile = NoFile
    /\ cDirMode = "0700"

-----------------------------------------------------------------------------
(* C25: the order of the steps inside downloadInvoice *)

\* the steps the trace of the running call holds so far
TraceSteps == {dlTrace[k].step : k \in 1..Len(dlTrace)}

\* C25: the steps of downloadInvoice run on its own tab in the order mkdir,
\* setDownloadBehavior, goto, waitForSelector, click, watcher; the download
\* behaviour is "allow" into the absolute outputDir before the navigation
\* and the click; a step that fails is the last one started.
C25_StepsInFixedOrder ==
    LET order == <<"mkdir", "cdp", "goto", "waitForSelector", "click",
                   "watch">>
    IN  /\ Len(dlTrace) <= Len(order)
        /\ \A k \in 1..Len(dlTrace) :
               /\ dlTrace[k].step = order[k]
               /\ k < Len(dlTrace) => dlTrace[k].ok
        /\ \A k \in 1..Len(order) :
               dlPc = order[k] =>
                   /\ Len(dlTrace) = k - 1
                   /\ dlPage \in OpenDownloadTabs
        /\ dlTrace # <<>> => dlPage \in DownloadTabs
        /\ (TraceSteps \cap {"goto", "waitForSelector", "click", "watch"}
                # {}) =>
               /\ dlSink.behavior = "allow"
               /\ dlSink.downloadPath = <<"/","w","d","/","o","u","t">>
        /\ dlSink # NoSink => [step |-> "cdp", ok |-> TRUE] \in
                                  {dlTrace[k] : k \in 1..Len(dlTrace)}
        /\ dlResult.success =>
               /\ Len(dlTrace) = Len(order)
               /\ dlTrace[Len(order)].ok
        /\ (dlResult.set /\ ~dlResult.success) =>
               /\ dlTrace # <<>>
               /\ ~dlTrace[Len(dlTrace)].ok

\* the button never showed: nothing was clicked and no watcher started, the
\* download behaviour having been set before the navigation
C25_Witness ==
    /\ dlPc = "returned"
    /\ Len(dlTrace) = 4
    /\ dlTrace[3] = [step |-> "goto", ok |-> TRUE]
    /\ dlTrace[4] = [step |-> "waitForSelector", ok |-> FALSE]
    /\ dlSink.behavior = "allow"
    /\ ~dlResult.success

-----------------------------------------------------------------------------
(* C26: browser.close() *)

\* once browser.close() has been called it is not called again and no
\* downloadInvoice call is started
C26_NothingAfterClose ==
    browserCloseCalls = 1 =>
        /\ browserCloseCalls' = 1
        /\ attempts' = attempts

\* C26: once the browser is launched, browser.close() is called exactly
\* once on every path out of main, and never while a downloadInvoice call is
\* running or yet to be made.
C26_BrowserClosedExactlyOnce ==
    /\ [](/\ browserCloseCalls \in {0, 1}
          /\ browser = "none" => browserCloseCalls = 0
          /\ (browser # "none" /\ mainPc \in {"settled", "exited"}) =>
                 browserCloseCalls = 1
          /\ browserCloseCalls = 1 =>
                 /\ browser = "closed"
                 /\ dlPc = "idle"
                 /\ Len(outcomes) = Len(attempts)
                 /\ mainPc \in {"settled", "exited"})
    /\ [][C26_NothingAfterClose]_vars

\* the second downloadInvoice call raised: the browser was closed once and
\* the process has exited
C26_Witness ==
    /\ mainPc = "exited"
    /\ outcomes = <<"ok", "threw">>
    /\ browserCloseCalls = 1
    /\ browser = "closed"

-----------------------------------------------------------------------------
(* SpecAfterClick: waitForFileDownload from the moment the click resolved, *)
(* on a directory that is empty then, so that every file found in it was   *)
(* written after the click                                                 *)

\* the browser writes a complete file into the directory: before the
\* watcher has taken its snapshot, or later while the timeout has not
\* elapsed
EnvDownload ==
    /\ \/ wPc = "start"
       \/ WatcherRunning /\ LoopTest(now - startTime, timeout)
    /\ \E f \in FileNames, size \in 1..MaxSize :
           /\ dirFiles[f] = Absent
           /\ dirFiles' = [dirFiles EXCEPT ![f] = size]
    /\ UNCHANGED <<now, watcherLocals, mainVars, dlVars, filterVars,
                   setupVars>>

InitAfterClick ==
    /\ InitWatch
    /\ dirFiles = [f \in FileNames |-> Absent]

NextAfterClick ==
    \/ EnvDownload
    \/ WatcherStart
    \/ WatcherPoll
    \/ WatcherSleep
    \/ WatcherStabilize

SpecAfterClick == InitAfterClick /\ [][NextAfterClick]_vars

-----------------------------------------------------------------------------
(* C27: a file written after the click *)

\* C27: when a complete .pdf has been written into outputDir after the
\* click and within the timeout, the watcher does not time out and returns
\* the path of such a file, also when the file was there before the
\* watcher took its snapshot.
C27_NewPdfIsReturned ==
    /\ wPc = "timedOut" =>
           /\ existingFiles = {}
           /\ \A f \in PdfNames : dirFiles[f] = Absent
    /\ wPc = "returned" =>
           \E f \in PdfNames :
               /\ dirFiles[f] # Absent
               /\ wReturn = join(DownloadDir, f)

-----------------------------------------------------------------------------
(* C28: the counters of the download loop *)

\* the completed downloadInvoice calls with the given outcome
CallsWith(outcome) == {k \in 1..Len(outcomes) : outcomes[k] = outcome}

\* no step lowers a counter
C28_CountersGrow ==
    /\ successCount' >= successCount
    /\ failCount' >= failCount

\* C28: successCount + failCount is the number of invoices processed so
\* far, no counter ever decreases, and when the summary is printed the sum
\* is the number of selected invoices, successCount being the number of
\* downloadInvoice calls that returned success = true.
C28_CountersMatchOutcomes ==
    /\ [](/\ successCount + failCount = i
          /\ successCount = Cardinality(CallsWith("ok"))
          /\ failCount = Cardinality(CallsWith("fail"))
          /\ summaryPrinted =>
                 /\ successCount + failCount = Len(invoicesToDownload)
                 /\ Len(outcomes) = Len(invoicesToDownload)
                 /\ CallsWith("threw") = {})
    /\ [][C28_CountersGrow]_vars

\* the summary after one download that succeeded and one that failed
C28_Witness ==
    /\ summaryPrinted
    /\ outcomes = <<"ok", "fail">>
    /\ successCount = 1
    /\ failCount = 1

-----------------------------------------------------------------------------
(* SpecWatcherFair: SpecWatcher with the watcher's timers firing and its   *)
(* synchronous steps running                                               *)

WatcherStep ==
    \/ WatcherStart
    \/ WatcherPoll
    \/ WatcherSleep
    \/ WatcherStabilize

SpecWatcherFair == InitWatch /\ [][NextWatch]_vars /\ WF_vars(WatcherStep)

-----------------------------------------------------------------------------
(* C29: termination of waitForFileDownload *)

WatcherEnded == wPc \in {"returned", "timedOut"}

\* ceil(timeout / 1000)
MaxPollSleeps == (timeout + PollSleepMs - 1) \div PollSleepMs

\* the latest a timer of the model fires after its delay
MaxLateMs == MaxJitterTicks * TickMs

\* C29 as stated: the call ends no later than timeout + 1000 + 5000 ms
\* after it started.
C29_EndsWithinSixSecondsOfTimeout ==
    WatcherEnded =>
        now - startTime <= timeout + PollSleepMs + StabIterations * StabSleepMs

\* C29, amended: waitForFileDownload terminates, after at most
\* ceil(timeout / 1000) poll sleeps, each begun before the timeout elapsed,
\* and at most 10 stabilisation sleeps; it ends no later than timeout + 1000
\* + 5000 ms plus the lateness of its timers, ten times that of one timer at
\* the most.
C29_TerminatesWithinSleepCounts ==
    /\ <>WatcherEnded
    /\ [](/\ sleeps <= MaxPollSleeps
          /\ reads <= StabIterations
          /\ wPc = "sleep" => now - startTime < timeout
          /\ WatcherEnded =>
                 now - startTime < timeout + PollSleepMs
                                   + StabIterations * StabSleepMs
                                   + StabIterations * MaxLateMs)

\* ten stabilisation sleeps, late ones among them: the path was returned
\* more than timeout + 6000 ms after the call
C29_Witness ==
    /\ wPc = "returned"
    /\ reads = StabIterations
    /\ now - startTime > timeout + PollSleepMs + StabIterations * StabSleepMs

-----------------------------------------------------------------------------
(* SpecListing: the in-page extraction of getInvoiceUrls on one portal row *)
(* dated with a full month name, followed by filterInvoicesByMonth for     *)
(* every valid target month                                                *)

\* the dates "January 1, 2023" .. "December 20, 2024"
FullNameDescs ==
    {desc \in DateDescs : desc.form = "full" /\ desc.case = "title"}

\* what follows the date in the visible text of the row
RowSuffixes == {<<>>, <<" ","P","a","i","d">>}

\* the anchor of a row whose text is the date and a suffix, the row being a
\* <tr> or the parent element of the anchor
RowAnchor(desc, suffix, inTable) ==
    [href       |-> "invoice1",
     hasTr      |-> inTable,
     trText     |-> IF inTable THEN DateOf(desc) \o suffix ELSE <<>>,
     parentText |-> IF inTable THEN Text_NoDate ELSE DateOf(desc) \o suffix]

\* -month YYYY-MM for the month and year of a date
TargetOf(desc) ==
    desc.yearText \o <<"-">> \o padStart(String(desc.monthNum), 2, "0")

InitListing ==
    /\ MainIdle
    /\ WatcherIdle
    /\ ConfigIdle
    /\ VerifyIdle
    /\ CliIdle
    /\ fDom \in {<<RowAnchor(desc, suffix, inTable)>> :
                    desc \in FullNameDescs, suffix \in RowSuffixes,
                    inTable \in BOOLEAN}
    /\ fTarget \in ValidTargets
    /\ fPc = "list"
    /\ fInvoices = <<>>
    /\ fResult = <<>>
    /\ fAgain = <<>>
    /\ fRefiltered = <<>>

\* getInvoiceUrls: the records page.evaluate returns for the page's anchors
ListingCall ==
    /\ fPc = "list"
    /\ fInvoices' = evaluateLinks(fDom)
    /\ fPc' = "ready"
    /\ UNCHANGED <<fDom, fTarget, fResult, fAgain, fRefiltered, mainVars,
                   dlVars, watchVars, setupVars>>

NextListing ==
    \/ ListingCall
    \/ FilterCall

SpecListing == InitListing /\ [][NextListing]_vars

-----------------------------------------------------------------------------
(* C30 *)

\* the visible text of the row of an anchor
RowText(anchor) == IF anchor.hasTr THEN anchor.trText ELSE anchor.parentText

\* C30: a row whose text holds a date written with a full month name is
\* listed with a date that the filter matches for the month and year of the
\* date, so that the invoice is selected for that target month.
C30_FullMonthNameIsSelected ==
    fPc = "done" =>
        \A desc \in FullNameDescs :
            (/\ \E suffix \in RowSuffixes :
                   RowText(fDom[1]) = DateOf(desc) \o suffix
             /\ fTarget = TargetOf(desc))
            => /\ Len(fResult) = 1
               /\ fResult[1].url = fDom[1].href

=============================================================================
